---- MODULE Spec2Model ----
(***************************************************************************)
(* The LAVA job submitter of .gitlab-ci/lava: LAVAJob, the polling loop    *)
(* (fetch_logs / follow_job_execution), the retry orchestrator             *)
(* (retriable_follow_job), main's exit status, and the LogFollower that    *)
(* tracks Gitlab sections.                                                 *)
(*                                                                         *)
(* Time is in seconds.  A log message is a sequence of fragments; a        *)
(* regular expression search over a message is a search for the first      *)
(* fragment the expression matches.                                        *)
(***************************************************************************)
EXTENDS Integers, Sequences, FiniteSets, TLC

VARIABLES
    pc,             \* position of the single thread of control
    args,           \* main's command line: validate_only, job_timeout
    now,            \* datetime.now(), in seconds since the attempt's LAVAJob(...)
    attempt_no,     \* retriable_follow_job: attempt_no (0 before the loop)
    job,            \* the LAVAJob of the current attempt
    submits,        \* calls of scheduler.jobs.submit that were made
    cancels,        \* calls of scheduler.jobs.cancel made in this attempt
    waits,          \* iterations of the wait-for-start loop in this attempt
    polls,          \* calls of fetch_logs in this attempt
    tries,          \* fetch_logs: iterations of `for _ in range(5)` so far
    lf,             \* the LogFollower: current_section and the hints counter
    new_log_lines,  \* fetch_logs: the decoded batch
    parsed_lines,   \* fetch_logs: the lines handed to print_log
    results,        \* find_lava_error: the loaded results
    raised,         \* the exception the current attempt ended with
    attempt_log,    \* the exception classes that ended the attempts so far
    outcome,        \* how retriable_follow_job / main ended
    exit_code,      \* the process exit status (-1 while running)
    proxy_call,     \* the _call_proxy call that is followed step by step, or the
                    \* scheduler.jobs.cancel call that job.cancel() made
    dump            \* the hide_sensitive_data call: its arguments and what it returned

vars == <<pc, args, now, attempt_no, job, submits, cancels, waits, polls, tries,
          lf, new_log_lines, parsed_lines, results, raised, attempt_log, outcome, exit_code,
          proxy_call, dump>>

-----------------------------------------------------------------------------
(* Program constants *)

DEVICE_HANGING_TIMEOUT_SEC == 300
WAIT_FOR_DEVICE_POLLING_TIME_SEC == 10
LOG_POLLING_TIME_SEC == 5
NUMBER_OF_RETRIES_TIMEOUT_DETECTION == 2
LOG_FETCH_TRIES == 5
FALLBACK_GITLAB_SECTION_TIMEOUT == 600
KNOWN_ISSUE_R8152_MAX_CONSECUTIVE_COUNTER == 2

(* Bounds of the model *)

MaxWaits == 1
MaxPolls == 2
MaxBatchLen == 2
MaxFeeds == 3

-----------------------------------------------------------------------------
(* Log lines.  A line is [lvl, is_list, msg]: is_list is isinstance(msg,   *)
(* list) (a kernel dump), msg the fragments of the text.                   *)

NoText == <<>>

PassFragment == "hwci: mesa: pass"
FailFragment == "hwci: mesa: fail"
StartTcFragment == "<LAVA_SIGNAL_STARTTC case>"
StartRunFragment == "<LAVA_SIGNAL_STARTRUN suite>"
EndTcFragment == "<LAVA_SIGNAL_ENDTC case>"
KernelFragment == "[    5.123456] usb 1-1: reset"
R8152Fragment == "r8152 2-1.3:1.0 eth0: Tx status -71"
NfsFragment == "nfs: server 192.168.201.1 not responding, still trying"
PlainFragment == "New message"

Line(lvl, msg) == [lvl |-> lvl, is_list |-> FALSE, msg |-> msg]
KernelDumpLine(lvl) == [lvl |-> lvl, is_list |-> TRUE, msg |-> <<"Call trace:">>]

\* re.search over a text: `matches` tells of every fragment whether the
\* expression matches it; the index of the first one it matches, 0 if none
FirstMatch(matches) ==
    LET hits == {i \in 1..Len(matches) : matches[i]}
    IN IF hits = {} THEN 0 ELSE CHOOSE i \in hits : \A j \in hits : i <= j

\* re.search(r"hwci: mesa: (pass|fail)", line).group(1) for one fragment
ResultGroup(frag) ==
    CASE frag = PassFragment -> "pass"
      [] frag = FailFragment -> "fail"
      [] OTHER -> ""

IsResult(frag) == ResultGroup(frag) # ""

\* re.search(r"hwci: mesa: (pass|fail)", text): the fragment it matches, 0 if none
SearchResult(text) == FirstMatch([k \in 1..Len(text) |-> IsResult(text[k])])

\* re.search(r"\[[\d\s]{5}\.[\d\s]{6}\] +\S{2,}", msg)
IsKernelMessage(frag) == frag = KernelFragment

SearchKernelMessage(text) == FirstMatch([k \in 1..Len(text) |-> IsKernelMessage(text[k])])

-----------------------------------------------------------------------------
(* GitlabSection *)

LAVA_BOOT == "LAVA_BOOT"
TEST_SUITE == "TEST_SUITE"
TEST_CASE == "TEST_CASE"
LAVA_POST_PROCESSING == "LAVA_POST_PROCESSING"

None == -1

\* LogFollower.current_section is None
NoSection ==
    [id |-> "", header |-> NoText, type |-> "None", start_collapsed |-> FALSE,
     start_time |-> None, end_time |-> None]

\* GitlabSection.section_id_filter: re.sub(r"[^\w_-]+", "-", value)
section_id_filter(value) ==
    CASE value = "LAVA boot" -> "LAVA-boot"
      [] OTHER -> value

\* GitlabSection(id, header, type, start_collapsed), __post_init__ included
GitlabSection(id, header, type, start_collapsed) ==
    [id |-> section_id_filter(id), header |-> header, type |-> type,
     start_collapsed |-> start_collapsed, start_time |-> None, end_time |-> None]

has_started(s) == s.start_time # None
has_finished(s) == s.end_time # None

\* GitlabSection.section with `collapse = self.start_collapsed`
section_CollapsedAtEnd(s, marker, header, time) ==
    LET section_id == <<s.id>> \o (IF s.start_collapsed THEN <<"[collapsed=true]">> ELSE <<>>)
        colored_header == IF header # NoText
                          THEN <<"<ESC>[1m<ESC>[1;32;5;197m">> \o header \o <<"<ESC>[0m">>
                          ELSE <<>>
    IN [prefix |-> "",
        text |-> <<"<ESC>[0K", "section_", marker, ":", ToString(time), ":">>
                 \o section_id \o <<"<CR>", "<ESC>[0K">> \o colored_header,
        suffix |-> ""]

\* GitlabSection.section: the marker line, as a printed line
section(s, marker, header, time) ==
    LET collapse == marker = "start" /\ s.start_collapsed
        section_id == <<s.id>> \o (IF collapse THEN <<"[collapsed=true]">> ELSE <<>>)
        colored_header == IF header # NoText
                          THEN <<"<ESC>[1m<ESC>[1;32;5;197m">> \o header \o <<"<ESC>[0m">>
                          ELSE <<>>
    IN [prefix |-> "",
        text |-> <<"<ESC>[0K", "section_", marker, ":", ToString(time), ":">>
                 \o section_id \o <<"<CR>", "<ESC>[0K">> \o colored_header,
        suffix |-> ""]

\* GitlabSection.start / end: the section afterwards
start_section(s, t) == [s EXCEPT !.start_time = t]
end_section(s, t) == [s EXCEPT !.end_time = t]

\* GitlabSection.delta_time of a started section
delta_time(s, t) ==
    IF s.end_time # None THEN s.end_time - s.start_time ELSE t - s.start_time

-----------------------------------------------------------------------------
(* LogSection and LOG_SECTIONS *)

NoMatch == "<no match>"

\* re.search(log_section.regex, fragment).groups()[0], NoMatch without a match:
\*   r"<?STARTTC>? ([^>]*)", r"<?STARTRUN>? ([^>]*)", r"ENDTC>? ([^>]+)"
RegexGroup(regex, frag) ==
    CASE regex = "STARTTC" /\ frag = StartTcFragment -> "case"
      [] regex = "STARTRUN" /\ frag = StartRunFragment -> "suite"
      [] regex = "ENDTC" /\ frag = EndTcFragment -> "case"
      [] OTHER -> NoMatch

LOG_SECTIONS ==
    << [regex |-> "STARTTC", levels |-> {"target", "debug"}, section_id |-> "",
        section_header |-> "test_case ", section_type |-> TEST_CASE,
        collapsed |-> FALSE],
       [regex |-> "STARTRUN", levels |-> {"target", "debug"}, section_id |-> "",
        section_header |-> "test_suite ", section_type |-> TEST_SUITE,
        collapsed |-> FALSE],
       [regex |-> "ENDTC", levels |-> {"target", "debug"}, section_id |-> "post-",
        section_header |-> "Post test_case ", section_type |-> LAVA_POST_PROCESSING,
        collapsed |-> TRUE] >>

\* LogSection.from_log_line_to_section; NoSection stands for None
from_log_line_to_section(log_section, line) ==
    IF line.lvl \notin log_section.levels THEN NoSection
    ELSE LET Hit(frag) == RegexGroup(log_section.regex, frag) # NoMatch
             i == FirstMatch([k \in 1..Len(line.msg) |-> Hit(line.msg[k])])
         IN IF i = 0 THEN NoSection
            ELSE LET group == RegexGroup(log_section.regex, line.msg[i])
                 IN GitlabSection(log_section.section_id \o group,
                                  <<log_section.section_header \o group>>,
                                  log_section.section_type,
                                  log_section.collapsed)

-----------------------------------------------------------------------------
(* The line normalizer *)

\* The match of r"(\[(\d+;){0,2}\d{1,3}m)" that starts at msg[i]: the index of
\* its last character, 0 without a match.  A message is a sequence of
\* characters and of words that hold none of the characters of the pattern;
\* the two groups (\d+;) are tried before one and one before none.
color_code_at(msg, i) ==
    LET digits(p) ==
            CHOOSE r \in 0..(Len(msg) + 1 - p) :
                /\ \A k \in p..(p + r - 1) :
                       msg[k] \in {"0", "1", "2", "3", "4", "5", "6", "7", "8", "9"}
                /\ \/ p + r > Len(msg)
                   \/ msg[p + r] \notin {"0", "1", "2", "3", "4", "5", "6", "7", "8", "9"}
        \* (\d+;) at p: the position after it
        group(p) ==
            IF p = 0 \/ p > Len(msg) THEN 0
            ELSE IF digits(p) >= 1 /\ p + digits(p) <= Len(msg) /\ msg[p + digits(p)] = ";"
                 THEN p + digits(p) + 1
                 ELSE 0
        \* \d{1,3}m at p: the position of the m
        last(p) ==
            IF p = 0 \/ p > Len(msg) THEN 0
            ELSE IF digits(p) \in 1..3 /\ p + digits(p) <= Len(msg) /\ msg[p + digits(p)] = "m"
                 THEN p + digits(p)
                 ELSE 0
    IN  IF i > Len(msg) \/ msg[i] # "[" THEN 0
        ELSE IF last(group(group(i + 1))) # 0 THEN last(group(group(i + 1)))
        ELSE IF last(group(i + 1)) # 0 THEN last(group(i + 1))
        ELSE last(i + 1)

\* re.sub with count=1: the leftmost match only
RECURSIVE color_sub_from_FirstOnly(_, _)
color_sub_from_FirstOnly(msg, i) ==
    IF i > Len(msg) THEN <<>>
    ELSE IF color_code_at(msg, i) # 0
         THEN <<"<ESC>">> \o SubSeq(msg, i, Len(msg))
         ELSE <<msg[i]>> \o color_sub_from_FirstOnly(msg, i + 1)

\* re.sub(pattern, "\x1b" + r"\1", msg) from msg[i] on: the matches from left to
\* right, each with the escape byte put before it
RECURSIVE color_sub_from(_, _)
color_sub_from(msg, i) ==
    IF i > Len(msg) THEN <<>>
    ELSE IF color_code_at(msg, i) # 0
         THEN <<"<ESC>">> \o SubSeq(msg, i, color_code_at(msg, i))
                  \o color_sub_from(msg, color_code_at(msg, i) + 1)
         ELSE <<msg[i]>> \o color_sub_from(msg, i + 1)

fix_lava_color_log(msg) == color_sub_from(msg, 1)

\* fix_lava_gitlab_section_log: re.match at the start of the message
fix_lava_gitlab_section_log(msg) ==
    IF msg # <<>> /\ msg[1] = "[0Ksection_end:1652658415:test_setup[0K"
    THEN <<"<ESC>[0Ksection_end:1652658415:test_setup<CR><ESC>[0K">> \o Tail(msg)
    ELSE msg

NoLine == [prefix |-> "", text |-> NoText, suffix |-> "None"]

\* parse_lava_line; NoLine stands for None
parse_lava_line(line) ==
    CASE line.lvl \in {"results", "feedback", "debug"} -> NoLine
      [] line.lvl \in {"warning", "error"} ->
            [prefix |-> "<ESC>[1;38;5;197m", text |-> line.msg, suffix |-> "<ESC>[0m"]
      [] line.lvl = "input" ->
            [prefix |-> "$ ", text |-> line.msg, suffix |-> ""]
      [] line.lvl = "target" ->
            [prefix |-> "",
             text |-> fix_lava_gitlab_section_log(fix_lava_color_log(line.msg)),
             suffix |-> ""]
      [] OTHER -> [prefix |-> "", text |-> line.msg, suffix |-> ""]

\* parse_lava_line raises TypeError: re.sub in fix_lava_color_log is given the
\* list that is the msg of a target line
parse_lava_line_raises(line) == line.is_list /\ line.lvl = "target"

\* str.splitlines(keepends) of a text of characters; a rendered job definition
\* has no line boundary but "\n"
RECURSIVE splitlines(_, _)
splitlines(text, keepends) ==
    LET ends == {i \in 1..Len(text) : text[i] = "\n"} IN
    IF text = <<>> THEN <<>>
    ELSE IF ends = {} THEN <<text>>
    ELSE LET e == CHOOSE i \in ends : \A j \in ends : i <= j IN
         <<SubSeq(text, 1, IF keepends THEN e ELSE e - 1)>>
             \o splitlines(SubSeq(text, e + 1, Len(text)), keepends)

\* `hide_tag in line`: the tag is a substring of the line
str_in(hide_tag, line) ==
    \E i \in 0..(Len(line) - Len(hide_tag)) : SubSeq(line, i + 1, i + Len(hide_tag)) = hide_tag

\* "".join(lines)
RECURSIVE str_join(_)
str_join(lines) ==
    IF lines = <<>> THEN <<>> ELSE Head(lines) \o str_join(Tail(lines))

\* hide_sensitive_data that cuts the tag out of the line
hide_sensitive_data_CutsTag(yaml_data, hide_tag) ==
    LET cut(line) ==
            IF str_in(hide_tag, line)
            THEN LET i == CHOOSE k \in 0..(Len(line) - Len(hide_tag)) :
                              SubSeq(line, k + 1, k + Len(hide_tag)) = hide_tag
                 IN  SubSeq(line, 1, i) \o SubSeq(line, i + Len(hide_tag) + 1, Len(line))
            ELSE line
        lines == splitlines(yaml_data, TRUE)
    IN  str_join([k \in 1..Len(lines) |-> cut(lines[k])])

hide_sensitive_data(yaml_data, hide_tag) ==
    LET kept(line) == ~str_in(hide_tag, line) IN
    str_join(SelectSeq(splitlines(yaml_data, TRUE), kept))


-----------------------------------------------------------------------------
(* LogFollower.  Its state while a batch is fed is                        *)
(* [current_section, buffer, healthy].                                    *)

\* the budget LogFollower.watchdog compares with
\* watchdog with the fallback timeout for every section
timeout_duration_FallbackOnly(timeout_durations, s) == FALLBACK_GITLAB_SECTION_TIMEOUT

timeout_duration(timeout_durations, s) ==
    IF s.type \in DOMAIN timeout_durations
    THEN timeout_durations[s.type]
    ELSE FALLBACK_GITLAB_SECTION_TIMEOUT

\* watchdog with >= in the place of >
watchdog_raises_Inclusive(current_section, timeout_durations, t) ==
    /\ current_section # NoSection
    /\ delta_time(current_section, t) >= timeout_duration(timeout_durations, current_section)

\* a watchdog that never raises
watchdog_raises_Never(current_section, timeout_durations, t) == FALSE

\* LogFollower.watchdog raises MesaCITimeoutError
watchdog_raises(current_section, timeout_durations, t) ==
    /\ current_section # NoSection
    /\ delta_time(current_section, t) > timeout_duration(timeout_durations, current_section)

\* clear_current_section that appends no end marker
clear_current_section_Silent(st, t) ==
    IF st.current_section # NoSection /\ ~has_finished(st.current_section)
    THEN [st EXCEPT !.current_section = NoSection]
    ELSE st

clear_current_section(st, t) ==
    IF st.current_section # NoSection /\ ~has_finished(st.current_section)
    THEN [st EXCEPT !.buffer = Append(@, section(st.current_section, "end", NoText, t)),
                    !.current_section = NoSection]
    ELSE st

\* update_section without the test of the ids
update_section_NoGuard(st, new_section, t) ==
    LET cleared == clear_current_section(st, t)
    IN [cleared EXCEPT
           !.current_section = start_section(new_section, t),
           !.buffer = Append(cleared.buffer,
                             section(new_section, "start", new_section.header, t))]

update_section(st, new_section, t) ==
    IF st.current_section # NoSection /\ st.current_section.id = new_section.id
    THEN st
    ELSE LET cleared == clear_current_section(st, t)
         IN [cleared EXCEPT
                !.current_section = start_section(new_section, t),
                !.buffer = Append(cleared.buffer,
                                  section(new_section, "start", new_section.header, t))]

\* the loop of manage_gl_sections over LOG_SECTIONS, from rule i on
RECURSIVE manage_from(_, _, _, _)
manage_from(st, line, i, t) ==
    IF i > Len(LOG_SECTIONS) THEN st
    ELSE LET new_section == from_log_line_to_section(LOG_SECTIONS[i], line)
         IN manage_from(IF new_section # NoSection
                        THEN update_section(st, new_section, t)
                        ELSE st,
                        line, i + 1, t)

\* manage_gl_sections that matches the items of a list as well
manage_gl_sections_MatchesLists(st, line, t) == manage_from(st, line, 1, t)

manage_gl_sections(st, line, t) ==
    IF line.is_list THEN st ELSE manage_from(st, line, 1, t)

detect_kernel_dump_line(line) ==
    IF line.is_list THEN line.lvl = "debug"
    ELSE SearchKernelMessage(line.msg) # 0

\* LogFollower.feed's is_job_healthy: some line is no kernel dump line
is_job_healthy(new_lines) ==
    \E i \in 1..Len(new_lines) : ~detect_kernel_dump_line(new_lines[i])

\* the loop of LogFollower.feed over new_lines, from line i on
RECURSIVE feed_from(_, _, _, _)
feed_from(st, new_lines, i, t) ==
    IF i > Len(new_lines) THEN st
    ELSE IF detect_kernel_dump_line(new_lines[i])
         THEN feed_from(st, new_lines, i + 1, t)
         ELSE LET managed == manage_gl_sections(st, new_lines[i], t)
                  parsed_line == parse_lava_line(new_lines[i])
              IN feed_from([managed EXCEPT
                               !.healthy = TRUE,
                               !.buffer = IF parsed_line # NoLine
                                          THEN Append(@, parsed_line) ELSE @],
                           new_lines, i + 1, t)

\* LogFollower.feed after the watchdog: [current_section, buffer, healthy]
feed(current_section, new_lines, t) ==
    feed_from([current_section |-> current_section, buffer |-> <<>>, healthy |-> FALSE],
              new_lines, 1, t)

-----------------------------------------------------------------------------
(* LAVALogHints *)

IsR8152(frag) == frag = R8152Fragment
IsNfs(frag) == frag = NfsFragment

SearchR8152(text) == FirstMatch([k \in 1..Len(text) |-> IsR8152(text[k])])
SearchNfs(text) == FirstMatch([k \in 1..Len(text) |-> IsNfs(text[k])])

\* detect_r8152_issue without the test of the counter
detect_r8152_issue_NoThreshold(counter, phase, line) ==
    IF phase = TEST_CASE /\ line.lvl = "target" /\ SearchR8152(line.msg) # 0
    THEN [counter |-> counter + 1, raised |-> FALSE]
    ELSE IF phase = TEST_CASE /\ line.lvl = "target" /\ SearchNfs(line.msg) # 0
         THEN [counter |-> counter, raised |-> TRUE]
         ELSE [counter |-> 0, raised |-> FALSE]

\* detect_r8152_issue that counts the signature on every channel
detect_r8152_issue_AnyChannel(counter, phase, line) ==
    IF phase = TEST_CASE /\ SearchR8152(line.msg) # 0
    THEN [counter |-> counter + 1, raised |-> FALSE]
    ELSE IF /\ phase = TEST_CASE /\ line.lvl = "target"
            /\ counter >= KNOWN_ISSUE_R8152_MAX_CONSECUTIVE_COUNTER
            /\ SearchNfs(line.msg) # 0
         THEN [counter |-> counter, raised |-> TRUE]
         ELSE [counter |-> 0, raised |-> FALSE]

\* detect_r8152_issue on one line: [counter, raised]
detect_r8152_issue(counter, phase, line) ==
    IF phase = TEST_CASE /\ line.lvl = "target" /\ SearchR8152(line.msg) # 0
    THEN [counter |-> counter + 1, raised |-> FALSE]
    ELSE IF /\ phase = TEST_CASE /\ line.lvl = "target"
            /\ counter >= KNOWN_ISSUE_R8152_MAX_CONSECUTIVE_COUNTER
            /\ SearchNfs(line.msg) # 0
         THEN [counter |-> counter, raised |-> TRUE]
         ELSE [counter |-> 0, raised |-> FALSE]

\* detect_failure: the loop over new_lines, stopped by the exception
RECURSIVE detect_failure_from(_, _, _, _)
detect_failure_from(counter, phase, new_lines, i) ==
    IF i > Len(new_lines) THEN [counter |-> counter, raised |-> FALSE]
    ELSE LET r == detect_r8152_issue(counter, phase, new_lines[i])
         IN IF r.raised THEN r
            ELSE detect_failure_from(r.counter, phase, new_lines, i + 1)

detect_failure(counter, phase, new_lines) ==
    detect_failure_from(counter, phase, new_lines, 1)

\* LogFollower.phase
phase(current_section) ==
    IF current_section # NoSection THEN current_section.type ELSE "UNKNOWN"

-----------------------------------------------------------------------------
(* LAVAJob *)

NoJobId == 0

\* LAVAJob.__init__
LAVAJob ==
    [job_id |-> NoJobId, last_log_line |-> 0, last_log_time |-> None,
     is_finished |-> FALSE, status |-> "created"]

\* heartbeat that leaves last_log_time alone
heartbeat_StatusOnly(j, t) == [j EXCEPT !.status = "running"]

\* LAVAJob.heartbeat
heartbeat(j, t) == [j EXCEPT !.last_log_time = t, !.status = "running"]

\* parse_job_result_from_log that takes the result and lets the job run on
parse_job_result_from_log_NotFinished(j, lava_lines) ==
    LET HasResult(l) == SearchResult(l.text) # 0
        hits == {i \in 1..Len(lava_lines) : HasResult(lava_lines[i])}
    IN IF hits = {} THEN [job |-> j, lines |-> lava_lines]
       ELSE LET idx == CHOOSE i \in hits : \A k \in hits : i <= k
                text == lava_lines[idx].text
                result == ResultGroup(text[SearchResult(text)])
            IN [job |-> [j EXCEPT !.status = result],
                lines |-> SubSeq(lava_lines, 1, idx)]

\* LAVAJob.parse_job_result_from_log: [job, lines]
parse_job_result_from_log(j, lava_lines) ==
    LET HasResult(l) == SearchResult(l.text) # 0
        hits == {i \in 1..Len(lava_lines) : HasResult(lava_lines[i])}
    IN IF hits = {} THEN [job |-> j, lines |-> lava_lines]
       ELSE LET idx == CHOOSE i \in hits : \A k \in hits : i <= k
                text == lava_lines[idx].text
                result == ResultGroup(text[SearchResult(text)])
            IN [job |-> [j EXCEPT !.is_finished = TRUE, !.status = result],
                lines |-> SubSeq(lava_lines, 1, idx)]

-----------------------------------------------------------------------------
(* find_exception_from_metadata / find_lava_error *)

\* a metadata field that is absent
Absent == ""

\* find_exception_from_metadata without the `error_type == "Job"` test
find_exception_from_metadata_NoJob(metadata) ==
    /\ metadata.result = "fail"
    /\ \/ metadata.error_type \in {"Infrastructure"}
       \/ metadata.case = "validate"

\* find_exception_from_metadata without the early return on `result != "fail"`
find_exception_from_metadata_AnyResult(metadata) ==
    \/ metadata.error_type \in {"Infrastructure", "Job"}
    \/ metadata.case = "validate"

\* find_exception_from_metadata raises MesaCIException
find_exception_from_metadata(metadata) ==
    /\ metadata.result = "fail"
    /\ \/ metadata.error_type \in {"Infrastructure", "Job"}
       \/ metadata.case = "validate"

\* find_lava_error raises MesaCIException for the results
find_lava_error_raises(loaded) ==
    \E i \in 1..Len(loaded) : find_exception_from_metadata(loaded[i].metadata)

-----------------------------------------------------------------------------
(* _call_proxy: fn raises ProtocolError `protocol_errors` times in a row   *)
(* and then behaves as `then` ("ok", "Fault", or "Exception" for any other *)
(* exception).  [result, slept]: the result for the caller and the number  *)
(* of time.sleep(15) that were made.                                       *)

PROXY_RETRIES == 60
PROXY_SLEEP_SEC == 15

_call_proxy(protocol_errors, then) ==
    IF protocol_errors >= PROXY_RETRIES
    THEN [result |-> "SystemExit", slept |-> PROXY_RETRIES - 1]
    ELSE [result |-> IF then = "Fault" THEN "SystemExit" ELSE then,
          slept |-> protocol_errors]

-----------------------------------------------------------------------------
(* Inputs *)

\* what the remote end does with one call made through _call_proxy
ProtocolErrorCounts == {0, PROXY_RETRIES}
RemoteAnswers == {"ok", "Fault", "Exception"}

\* the results of one call through _call_proxy, over the remote end's behaviours
ProxyCalls == {_call_proxy(k, a) : k \in ProtocolErrorCounts, a \in RemoteAnswers}

\* the seconds the answer of scheduler.jobs.logs takes to arrive
LogDelays == {0,
              DEVICE_HANGING_TIMEOUT_SEC - LOG_POLLING_TIME_SEC - 1,
              DEVICE_HANGING_TIMEOUT_SEC - LOG_POLLING_TIME_SEC,
              DEVICE_HANGING_TIMEOUT_SEC - LOG_POLLING_TIME_SEC + 1}

\* --job-timeout, minutes
JobTimeouts == {60}

Lines ==
    { Line("target", <<PlainFragment>>),
      Line("target", <<PassFragment>>),
      Line("target", <<FailFragment>>),
      Line("debug", <<StartTcFragment>>) }

RECURSIVE SeqsUpTo(_, _)
SeqsUpTo(S, n) ==
    IF n = 0 THEN {<<>>}
    ELSE LET shorter == SeqsUpTo(S, n - 1)
         IN shorter \cup {Append(b, x) : b \in shorter, x \in S}

Batches == SeqsUpTo(Lines, MaxBatchLen)

\* the batches and delays of the runs of the whole program
RunDelays == {0, DEVICE_HANGING_TIMEOUT_SEC - LOG_POLLING_TIME_SEC + 1}

RunBatches ==
    { <<>>,
      <<Line("target", <<PlainFragment>>)>>,
      <<Line("debug", <<StartTcFragment>>)>>,
      <<Line("target", <<PassFragment>>)>>,
      <<Line("debug", <<StartTcFragment>>), Line("target", <<PassFragment>>)>>,
      <<Line("target", <<FailFragment>>), Line("target", <<PlainFragment>>)>>,
      <<Line("debug", <<StartTcFragment>>), Line("target", <<R8152Fragment>>),
        Line("target", <<R8152Fragment>>), Line("target", <<NfsFragment>>)>>,
      <<Line("debug", <<StartTcFragment>>), Line("target", <<R8152Fragment>>),
        Line("target", <<NfsFragment>>)>>,
      <<KernelDumpLine("debug"), Line("target", <<KernelFragment>>)>> }

Metadatas ==
    [result : {"pass", "fail"},
     error_type : {Absent, "Infrastructure", "Job", "Test"},
     case : {Absent, "validate"}]

\* the results of get_testjob_results_yaml: no entry, one entry, or a passed
\* entry followed by a failed one
ResultLists ==
    {<<>>} \cup {<<[metadata |-> m]>> : m \in Metadatas}
    \cup {<<[metadata |-> [result |-> "pass", error_type |-> Absent, case |-> Absent]],
            [metadata |-> m]>> : m \in {n \in Metadatas : n.result = "fail" /\ n.case = Absent}}

NoResults == <<>>

-----------------------------------------------------------------------------
(* The state machine *)

\* an exception: its class, what its message says, the class of the exception
\* it was raised from (__cause__), and the keyword arguments
NoMessage == ""
NoCause == ""
NoException ==
    [type |-> "None", msg |-> NoMessage, cause |-> NoCause, timeout_duration |-> None,
     retry_count |-> None]
Exception(type) ==
    [type |-> type, msg |-> NoMessage, cause |-> NoCause, timeout_duration |-> None,
     retry_count |-> None]
MesaCITimeoutError(msg, timeout) ==
    [type |-> "MesaCITimeoutError", msg |-> msg, cause |-> NoCause,
     timeout_duration |-> timeout, retry_count |-> None]
MesaCIRetryError(retry_count) ==
    [type |-> "MesaCIRetryError", msg |-> "Job failed after it exceeded the number of retries",
     cause |-> NoCause, timeout_duration |-> None, retry_count |-> retry_count]

\* `raise MesaCIException("Could not submit LAVA job ...") from mesa_ci_err`
CouldNotSubmit(mesa_ci_err) ==
    [type |-> "MesaCIException", msg |-> "Could not submit LAVA job", cause |-> mesa_ci_err,
     timeout_duration |-> None, retry_count |-> None]

\* the messages of the two MesaCITimeoutError
DoesNotRespond == "LAVA job does not respond. Retry."
SectionTimedOut == "Gitlab Section has timed out"

\* the classes that `except MesaCIException` catches after
\* `except MesaCIKnownIssueException`
MesaCIExceptions == {"MesaCIException", "MesaCITimeoutError", "MesaCIParseException"}

\* DEFAULT_GITLAB_SECTION_TIMEOUTS after main's GL_SECTION_TIMEOUTS[TEST_CASE] = ...
GL_SECTION_TIMEOUTS(job_timeout) ==
    (LAVA_BOOT :> 300) @@ (TEST_SUITE :> 300) @@ (TEST_CASE :> 60 * job_timeout)
    @@ (LAVA_POST_PROCESSING :> 300)

\* hide_sensitive_data was not called
NoDump == [yaml_data |-> <<>>, hide_tag |-> <<>>, result |-> <<"<not called>">>]

\* no _call_proxy call is followed
NoCall ==
    [fn |-> "", n |-> 0, calls |-> 0, sleeps |-> 0, invoked |-> {}, error |-> "",
     answer |-> "", result |-> ""]

NoFollower == [current_section |-> NoSection, r8152_issue_consecutive_counter |-> 0]

Init ==
    /\ pc = "main"
    /\ args \in [validate_only : BOOLEAN, job_timeout : JobTimeouts]
    /\ dump = NoDump
    /\ now = 0
    /\ attempt_no = 0
    /\ job = LAVAJob
    /\ submits = 0
    /\ cancels = 0
    /\ waits = 0
    /\ polls = 0
    /\ tries = 0
    /\ lf = NoFollower
    /\ new_log_lines = <<>>
    /\ parsed_lines = <<>>
    /\ results = NoResults
    /\ raised = NoException
    /\ attempt_log = {}
    /\ outcome = "running"
    /\ exit_code = -1
    /\ proxy_call = NoCall

\* the process ends
Exit(how, code) ==
    /\ pc' = "done"
    /\ outcome' = how
    /\ exit_code' = code

\* the exit status of a process that ends with an exception nobody caught
ExitCodeOf(type) == IF type = "KeyboardInterrupt" THEN 130 ELSE 1

\* LogFollower.__exit__ (its printed lines are not kept)
follower_exit(follower, t) ==
    [follower EXCEPT !.current_section =
        clear_current_section([current_section |-> follower.current_section,
                               buffer |-> <<>>, healthy |-> FALSE], t).current_section]

\* an exception leaves follow_job_execution
Raise(exc) ==
    /\ raised' = exc
    /\ pc' = "except"

\* main up to the call of retriable_follow_job
Main ==
    /\ pc = "main"
    /\ \E call \in ProxyCalls, errors \in BOOLEAN :
          /\ now' = now + PROXY_SLEEP_SEC * call.slept
          /\ IF call.result # "ok" THEN Exit(call.result, 1)
             ELSE IF errors THEN Exit("SystemExit", 1)
             ELSE IF args.validate_only THEN Exit("validated", 0)
             ELSE pc' = "for" /\ UNCHANGED <<outcome, exit_code>>
    /\ UNCHANGED <<proxy_call, dump, args, attempt_no, job, submits, cancels, waits, polls, tries, lf,
                   new_log_lines, parsed_lines, results, raised, attempt_log>>

\* NewAttempt with range(1, retry_count + 3)
NewAttempt_OneMore ==
    /\ pc = "for"
    /\ attempt_no < NUMBER_OF_RETRIES_TIMEOUT_DETECTION + 2
    /\ attempt_no' = attempt_no + 1
    /\ job' = LAVAJob
    /\ pc' = "submit"
    /\ cancels' = 0 /\ waits' = 0 /\ polls' = 0 /\ tries' = 0
    /\ lf' = NoFollower
    /\ new_log_lines' = <<>> /\ parsed_lines' = <<>> /\ results' = NoResults
    /\ raised' = NoException
    /\ now' = 0
    /\ UNCHANGED <<proxy_call, dump, args, submits, attempt_log, outcome, exit_code>>

\* retriable_follow_job: one more iteration of the for loop, job = LAVAJob(...)
\* the for loop with the LAVAJob built once, before the loop
NewAttempt_SameJob ==
    /\ pc = "for"
    /\ attempt_no < NUMBER_OF_RETRIES_TIMEOUT_DETECTION + 1
    /\ attempt_no' = attempt_no + 1
    /\ pc' = "submit"
    /\ cancels' = 0 /\ waits' = 0 /\ polls' = 0 /\ tries' = 0
    /\ lf' = NoFollower
    /\ new_log_lines' = <<>> /\ parsed_lines' = <<>> /\ results' = NoResults
    /\ raised' = NoException
    /\ now' = 0
    /\ UNCHANGED <<proxy_call, dump, args, job, submits, attempt_log, outcome, exit_code>>

NewAttempt ==
    /\ pc = "for"
    /\ attempt_no < NUMBER_OF_RETRIES_TIMEOUT_DETECTION + 1
    /\ attempt_no' = attempt_no + 1
    /\ job' = LAVAJob
    /\ pc' = "submit"
    /\ cancels' = 0 /\ waits' = 0 /\ polls' = 0 /\ tries' = 0
    /\ lf' = NoFollower
    /\ new_log_lines' = <<>> /\ parsed_lines' = <<>> /\ results' = NoResults
    /\ raised' = NoException
    /\ now' = 0
    /\ UNCHANGED <<proxy_call, dump, args, submits, attempt_log, outcome, exit_code>>

\* the for loop started over instead of `raise MesaCIRetryError`
RaiseRetryError_Restart ==
    /\ pc = "for"
    /\ attempt_no >= NUMBER_OF_RETRIES_TIMEOUT_DETECTION + 1
    /\ attempt_no' = 0
    /\ submits' = 0
    /\ attempt_log' = {}
    /\ raised' = NoException
    /\ UNCHANGED <<proxy_call, pc, dump, args, now, job, cancels, waits, polls, tries, lf,
                   new_log_lines, parsed_lines, results, outcome, exit_code>>

\* RaiseRetryError with range(1, retry_count + 1)
RaiseRetryError_Early ==
    /\ pc = "for"
    /\ attempt_no >= NUMBER_OF_RETRIES_TIMEOUT_DETECTION
    /\ raised' = MesaCIRetryError(NUMBER_OF_RETRIES_TIMEOUT_DETECTION)
    /\ Exit("MesaCIRetryError", 1)
    /\ UNCHANGED <<proxy_call, dump, args, now, attempt_no, job, submits, cancels, waits, polls, tries, lf,
                   new_log_lines, parsed_lines, results, attempt_log>>

\* raise MesaCIRetryError with the number of the last attempt as retry_count
RaiseRetryError_CountsAttempts ==
    /\ pc = "for"
    /\ attempt_no >= NUMBER_OF_RETRIES_TIMEOUT_DETECTION + 1
    /\ raised' = MesaCIRetryError(attempt_no)
    /\ Exit("MesaCIRetryError", 1)
    /\ UNCHANGED <<proxy_call, dump, args, now, attempt_no, job, submits, cancels, waits, polls, tries, lf,
                   new_log_lines, parsed_lines, results, attempt_log>>

\* retriable_follow_job: the for loop is over, raise MesaCIRetryError
RaiseRetryError ==
    /\ pc = "for"
    /\ attempt_no >= NUMBER_OF_RETRIES_TIMEOUT_DETECTION + 1
    /\ raised' = MesaCIRetryError(NUMBER_OF_RETRIES_TIMEOUT_DETECTION)
    /\ Exit("MesaCIRetryError", 1)
    /\ UNCHANGED <<proxy_call, dump, args, now, attempt_no, job, submits, cancels, waits, polls, tries, lf,
                   new_log_lines, parsed_lines, results, attempt_log>>

\* Submit without the try/except around job.submit()
Submit_Unwrapped ==
    /\ pc = "submit"
    /\ submits' = submits + 1
    /\ \E call \in ProxyCalls :
          /\ now' = now + PROXY_SLEEP_SEC * call.slept
          /\ CASE call.result = "ok" ->
                    /\ job' = [job EXCEPT !.job_id = attempt_no]
                    /\ pc' = "wait"
                    /\ UNCHANGED raised
               [] call.result = "SystemExit" ->
                    Raise(Exception("SystemExit")) /\ UNCHANGED job
               [] OTHER ->
                    Raise(Exception(call.result)) /\ UNCHANGED job
    /\ UNCHANGED <<proxy_call, dump, args, attempt_no, cancels, waits, polls, tries, lf, new_log_lines,
                   parsed_lines, results, attempt_log, outcome, exit_code>>

\* follow_job_execution: job.submit()
Submit ==
    /\ pc = "submit"
    /\ submits' = submits + 1
    /\ \E call \in ProxyCalls :
          /\ now' = now + PROXY_SLEEP_SEC * call.slept
          /\ CASE call.result = "ok" ->
                    /\ job' = [job EXCEPT !.job_id = attempt_no]
                    /\ pc' = "wait"
                    /\ UNCHANGED raised
               [] call.result = "SystemExit" ->
                    Raise(Exception("SystemExit")) /\ UNCHANGED job
               [] OTHER ->
                    Raise(CouldNotSubmit(call.result)) /\ UNCHANGED job
    /\ UNCHANGED <<proxy_call, dump, args, attempt_no, cancels, waits, polls, tries, lf, new_log_lines,
                   parsed_lines, results, attempt_log, outcome, exit_code>>

WaitingStates == {"Submitted", "Scheduling", "Scheduled"}
JobStates == WaitingStates \cup {"Running", "Finished"}

\* IsStartedAfter with the boot section and the heartbeat of the time of the
\* submission
IsStartedAfter_ClockFromSubmit(wait_times) ==
    /\ pc = "wait"
    /\ \E call \in ProxyCalls, job_state \in JobStates, wait_time \in wait_times :
          /\ CASE call.result = "ok" /\ job_state \in WaitingStates ->
                    /\ waits < MaxWaits
                    /\ waits' = waits + 1
                    /\ now' = now + wait_time + PROXY_SLEEP_SEC * call.slept
                              + WAIT_FOR_DEVICE_POLLING_TIME_SEC
                    /\ UNCHANGED <<pc, job, lf, raised>>
               [] call.result = "ok" /\ job_state \notin WaitingStates ->
                    /\ now' = now + wait_time + PROXY_SLEEP_SEC * call.slept
                    /\ lf' = [NoFollower EXCEPT !.current_section =
                                start_section(GitlabSection("lava_boot", <<"LAVA boot">>,
                                                            LAVA_BOOT, TRUE), 0)]
                    /\ job' = heartbeat(job, 0)
                    /\ pc' = "while"
                    /\ UNCHANGED <<waits, raised>>
               [] OTHER ->
                    /\ now' = now + wait_time + PROXY_SLEEP_SEC * call.slept
                    /\ Raise(Exception(call.result))
                    /\ UNCHANGED <<waits, job, lf>>
    \* the answer that ended the loop is kept by nothing
    /\ proxy_call' = IF pc' = "wait" THEN proxy_call ELSE NoCall
    /\ UNCHANGED <<dump, args, attempt_no, submits, cancels, polls, tries, new_log_lines,
                   parsed_lines, results, attempt_log, outcome, exit_code>>

\* follow_job_execution: one test of `while not job.is_started()`; when the job
\* has started, the boot section, the LogFollower and the first heartbeat.
\* The answer of scheduler.job_state comes after wait_time seconds.
IsStartedAfter(wait_times) ==
    /\ pc = "wait"
    /\ \E call \in ProxyCalls, job_state \in JobStates, wait_time \in wait_times :
          /\ CASE call.result = "ok" /\ job_state \in WaitingStates ->
                    /\ waits < MaxWaits
                    /\ waits' = waits + 1
                    /\ now' = now + wait_time + PROXY_SLEEP_SEC * call.slept
                              + WAIT_FOR_DEVICE_POLLING_TIME_SEC
                    /\ UNCHANGED <<pc, job, lf, raised>>
               [] call.result = "ok" /\ job_state \notin WaitingStates ->
                    /\ now' = now + wait_time + PROXY_SLEEP_SEC * call.slept
                    /\ lf' = [NoFollower EXCEPT !.current_section =
                                start_section(GitlabSection("lava_boot", <<"LAVA boot">>,
                                                            LAVA_BOOT, TRUE), now')]
                    /\ job' = heartbeat(job, now')
                    /\ pc' = "while"
                    /\ UNCHANGED <<waits, raised>>
               [] OTHER ->
                    /\ now' = now + wait_time + PROXY_SLEEP_SEC * call.slept
                    /\ Raise(Exception(call.result))
                    /\ UNCHANGED <<waits, job, lf>>
    \* the answer that ended the loop is kept by nothing
    /\ proxy_call' = IF pc' = "wait" THEN proxy_call ELSE NoCall
    /\ UNCHANGED <<dump, args, attempt_no, submits, cancels, polls, tries, new_log_lines,
                   parsed_lines, results, attempt_log, outcome, exit_code>>

IsStarted == IsStartedAfter({0})

\* While without `if job.status not in ["pass", "fail"]: find_lava_error(job)`
While_NoFindLavaError ==
    /\ pc = "while"
    /\ IF ~job.is_finished
       THEN pc' = "fetch" /\ UNCHANGED lf
       ELSE /\ lf' = follower_exit(lf, now)
            /\ pc' = "return"
    /\ UNCHANGED <<proxy_call, dump, args, now, attempt_no, job, submits, cancels, waits, polls, tries,
                   new_log_lines, parsed_lines, results, raised, attempt_log, outcome,
                   exit_code>>

\* While with `if job.status != "pass": find_lava_error(job)`
While_FailIsLookedUp ==
    /\ pc = "while"
    /\ IF ~job.is_finished
       THEN pc' = "fetch" /\ UNCHANGED lf
       ELSE /\ lf' = follower_exit(lf, now)
            /\ pc' = IF job.status # "pass" THEN "find_lava_error" ELSE "return"
    /\ UNCHANGED <<proxy_call, dump, args, now, attempt_no, job, submits, cancels, waits, polls, tries,
                   new_log_lines, parsed_lines, results, raised, attempt_log, outcome,
                   exit_code>>

\* follow_job_execution: the test of `while not job.is_finished`; when it is
\* over, LogFollower.__exit__ and the test of job.status
While ==
    /\ pc = "while"
    /\ IF ~job.is_finished
       THEN pc' = "fetch" /\ UNCHANGED lf
       ELSE /\ lf' = follower_exit(lf, now)
            /\ pc' = IF job.status \notin {"pass", "fail"}
                     THEN "find_lava_error" ELSE "return"
    /\ UNCHANGED <<proxy_call, dump, args, now, attempt_no, job, submits, cancels, waits, polls, tries,
                   new_log_lines, parsed_lines, results, raised, attempt_log, outcome,
                   exit_code>>

\* max_idle_time_exceeded with `>=`
max_idle_time_exceeded_Inclusive(j, max_idle_time, t) == t - j.last_log_time >= max_idle_time

\* the test fetch_logs starts with
max_idle_time_exceeded(j, max_idle_time, t) == t - j.last_log_time > max_idle_time

\* fetch_logs up to the call of job.get_logs(): the test of the idle time and
\* time.sleep(LOG_POLLING_TIME_SEC); `delays` are the seconds the answer of
\* scheduler.jobs.logs may take to arrive after that
FetchAfter(delays) ==
    /\ pc = "fetch"
    /\ IF max_idle_time_exceeded(job, DEVICE_HANGING_TIMEOUT_SEC, now)
       THEN /\ Raise(MesaCITimeoutError(DoesNotRespond, DEVICE_HANGING_TIMEOUT_SEC))
            /\ lf' = follower_exit(lf, now)
            /\ UNCHANGED <<now, polls, tries>>
       ELSE /\ \E delay \in delays : now' = now + LOG_POLLING_TIME_SEC + delay
            /\ polls' = polls + 1
            /\ tries' = 0
            /\ pc' = "get_logs"
            /\ UNCHANGED <<lf, raised>>
    /\ UNCHANGED <<proxy_call, dump, args, attempt_no, job, submits, cancels, waits, new_log_lines,
                   parsed_lines, results, attempt_log, outcome, exit_code>>

\* the ways one job.get_logs() call fails: _call_proxy ends the process, the
\* call raises another exception, or lava_yaml.load cannot decode the payload
\* (job.is_finished is assigned before the payload is decoded)
LogFailures ==
    {[result |-> "SystemExit", finished |-> FALSE],
     [result |-> "Exception", finished |-> FALSE],
     [result |-> "ok", finished |-> FALSE],
     [result |-> "ok", finished |-> TRUE]}

\* GetLogsFails with `for _ in range(6)`
GetLogsFails_OneMore ==
    /\ pc = "get_logs"
    /\ \E failure \in LogFailures :
          IF failure.result = "SystemExit"
          THEN /\ Raise(Exception("SystemExit"))
               /\ lf' = follower_exit(lf, now)
               /\ UNCHANGED <<job, tries>>
          ELSE /\ job' = IF failure.result = "ok"
                         THEN [job EXCEPT !.is_finished = failure.finished] ELSE job
               /\ tries' = tries + 1
               /\ IF tries' >= LOG_FETCH_TRIES + 1
                  THEN /\ Raise(Exception("MesaCIParseException"))
                       /\ lf' = follower_exit(lf, now)
                  ELSE UNCHANGED <<pc, lf, raised>>
    /\ UNCHANGED <<proxy_call, dump, args, now, attempt_no, submits, cancels, waits, polls, new_log_lines,
                   parsed_lines, results, attempt_log, outcome, exit_code>>

\* fetch_logs: an iteration of `for _ in range(5)` in which job.get_logs()
\* fails: MesaCIParseException under contextlib.suppress, and the loop's else
GetLogsFails ==
    /\ pc = "get_logs"
    /\ \E failure \in LogFailures :
          IF failure.result = "SystemExit"
          THEN /\ Raise(Exception("SystemExit"))
               /\ lf' = follower_exit(lf, now)
               /\ UNCHANGED <<job, tries>>
          ELSE /\ job' = IF failure.result = "ok"
                         THEN [job EXCEPT !.is_finished = failure.finished] ELSE job
               /\ tries' = tries + 1
               /\ IF tries' >= LOG_FETCH_TRIES
                  THEN /\ Raise(Exception("MesaCIParseException"))
                       /\ lf' = follower_exit(lf, now)
                  ELSE UNCHANGED <<pc, lf, raised>>
    /\ UNCHANGED <<proxy_call, dump, args, now, attempt_no, submits, cancels, waits, polls, new_log_lines,
                   parsed_lines, results, attempt_log, outcome, exit_code>>

\* the test of fetch_logs before parse_job_result_from_log
\* fetch_logs without the test of the section's type
result_is_parsed_Always(current_section) == TRUE

result_is_parsed(current_section) ==
    current_section.type \in {TEST_CASE, LAVA_POST_PROCESSING}

\* get_logs that counts the requests, not the lines
get_logs_CountsRequests(j, finished, lines) ==
    [j EXCEPT !.is_finished = finished, !.last_log_line = @ + 1]

\* LAVAJob.get_logs when the payload decodes
get_logs(j, finished, lines) ==
    [j EXCEPT !.is_finished = finished, !.last_log_line = @ + Len(lines)]

\* fetch_logs: an iteration of `for _ in range(5)` in which job.get_logs()
\* returns a batch of `batches`, and the rest of fetch_logs up to the parsed
\* lines: feed, heartbeat, flush, parse_job_result_from_log
GetLogsFrom(batches) ==
    /\ pc = "get_logs"
    /\ \E finished \in BOOLEAN, lines \in batches :
          /\ \/ polls < MaxPolls
             \/ finished
             \/ lines = <<>> /\ max_idle_time_exceeded(job, DEVICE_HANGING_TIMEOUT_SEC, now)
          /\ new_log_lines' = lines
          /\ \E got \in {get_logs(job, finished, lines)},
                fed \in {feed(lf.current_section, lines, now)} :
             \E hints \in {detect_failure(lf.r8152_issue_consecutive_counter,
                                          phase(fed.current_section), lines)},
                alive \in {IF fed.healthy THEN heartbeat(got, now) ELSE got} :
             \E parsed \in {IF result_is_parsed(fed.current_section)
                            THEN parse_job_result_from_log(alive, fed.buffer)
                            ELSE [job |-> alive, lines |-> fed.buffer]} :
                IF watchdog_raises(lf.current_section,
                                   GL_SECTION_TIMEOUTS(args.job_timeout), now)
                THEN /\ Raise(MesaCITimeoutError(
                                  SectionTimedOut,
                                  timeout_duration(GL_SECTION_TIMEOUTS(args.job_timeout),
                                                   lf.current_section)))
                     /\ lf' = follower_exit(lf, now)
                     /\ job' = got
                     /\ UNCHANGED parsed_lines
                ELSE IF hints.raised
                THEN /\ Raise(Exception("MesaCIKnownIssueException"))
                     /\ lf' = follower_exit(
                                  [lf EXCEPT !.current_section = fed.current_section], now)
                     /\ job' = got
                     /\ UNCHANGED parsed_lines
                ELSE /\ lf' = [current_section |-> fed.current_section,
                               r8152_issue_consecutive_counter |-> hints.counter]
                     /\ job' = parsed.job
                     /\ parsed_lines' = parsed.lines
                     /\ pc' = "print"
                     /\ UNCHANGED raised
    /\ UNCHANGED <<proxy_call, dump, args, now, attempt_no, submits, cancels, waits, polls, tries,
                   results, attempt_log, outcome, exit_code>>

\* fetch_logs: print_log of every parsed line, and the return
PrintLog ==
    /\ pc = "print"
    /\ pc' = "while"
    /\ new_log_lines' = <<>>
    /\ parsed_lines' = <<>>
    /\ tries' = 0
    /\ UNCHANGED <<proxy_call, dump, args, now, attempt_no, job, submits, cancels, waits, polls, lf,
                   results, raised, attempt_log, outcome, exit_code>>

\* follow_job_execution: find_lava_error(job)
FindLavaError ==
    /\ pc = "find_lava_error"
    /\ \E call \in ProxyCalls, loaded \in ResultLists :
          /\ now' = now + PROXY_SLEEP_SEC * call.slept
          /\ CASE call.result # "ok" ->
                    Raise(Exception(call.result)) /\ UNCHANGED <<job, results>>
               [] call.result = "ok" /\ find_lava_error_raises(loaded) ->
                    /\ results' = loaded
                    /\ Raise(Exception("MesaCIException"))
                    /\ UNCHANGED job
               [] OTHER ->
                    /\ results' = loaded
                    /\ job' = [job EXCEPT !.status = "fail"]
                    /\ pc' = "return"
                    /\ UNCHANGED raised
    /\ UNCHANGED <<proxy_call, dump, args, attempt_no, submits, cancels, waits, polls, tries, lf,
                   new_log_lines, parsed_lines, attempt_log, outcome, exit_code>>

\* a KeyboardInterrupt while follow_job_execution sleeps or waits for an answer
Interrupt ==
    /\ pc \in {"wait", "fetch"}
    /\ Raise(Exception("KeyboardInterrupt"))
    /\ lf' = follower_exit(lf, now)
    /\ proxy_call' = NoCall
    /\ UNCHANGED <<dump, args, now, attempt_no, job, submits, cancels, waits, polls, tries,
                   new_log_lines, parsed_lines, results, attempt_log, outcome, exit_code>>

\* print_job_final_status that prints the status as it finds it
print_job_final_status_PrintOnly(j) == j

\* print_job_final_status: the job's status afterwards
print_job_final_status(j) ==
    IF j.status = "running" THEN [j EXCEPT !.status = "hung"] ELSE j

\* cancel without the test of job_id
cancel_is_sent_Always(j) == TRUE

\* LAVAJob.cancel calls scheduler.jobs.cancel
cancel_is_sent(j) == j.job_id # NoJobId

\* the except clauses with a KeyboardInterrupt that is caught and not raised again
except_clauses_InterruptSwallowed(type, cancel_raises) ==
    CASE type = "MesaCIKnownIssueException" -> "None"
      [] cancel_raises -> "Exception"
      [] type \in MesaCIExceptions \cup {"KeyboardInterrupt"} -> "None"
      [] OTHER -> type

\* the except clauses with a bare `except:` that catches SystemExit as well
except_clauses_ExitCaught(type, cancel_raises) ==
    CASE type = "MesaCIKnownIssueException" -> "None"
      [] cancel_raises -> "Exception"
      [] type \in MesaCIExceptions \cup {"SystemExit"} -> "None"
      [] OTHER -> type

\* retriable_follow_job's except clauses: the exception that leaves the try
\* statement ("None": the for loop goes on). job.cancel() is a direct call of
\* the proxy, what it raises replaces the exception being handled.
except_clauses(type, cancel_raises) ==
    CASE type = "MesaCIKnownIssueException" -> "None"
      [] cancel_raises -> "Exception"
      [] type \in MesaCIExceptions -> "None"
      [] OTHER -> type

\* retriable_follow_job: the except clauses and the finally clause for the
\* exception that left follow_job_execution
Handle ==
    /\ pc = "except"
    /\ \E cancel_fails \in BOOLEAN, show \in ProxyCalls :
          LET type == raised.type
              cancelling == type \in MesaCIExceptions \cup {"KeyboardInterrupt"}
              sent == cancelling /\ cancel_is_sent(job)
              after_clause == except_clauses(type, sent /\ cancel_fails)
              marked == IF type = "MesaCIKnownIssueException"
                        THEN [job EXCEPT !.status = "canceled"] ELSE job
              propagating == IF show.result # "ok" THEN show.result ELSE after_clause
          IN /\ (cancel_fails => sent)
             /\ cancels' = IF sent THEN cancels + 1 ELSE cancels
             /\ proxy_call' = IF sent
                              THEN [NoCall EXCEPT
                                      !.fn = "scheduler.jobs.cancel", !.calls = 1,
                                      !.invoked = {"scheduler.jobs.cancel"},
                                      !.error = IF cancel_fails THEN "Exception" ELSE ""]
                              ELSE NoCall
             /\ job' = print_job_final_status(marked)
             /\ now' = now + PROXY_SLEEP_SEC * show.slept
             /\ attempt_log' = attempt_log \cup {type}
             /\ IF propagating # "None"
                THEN Exit(propagating, ExitCodeOf(propagating))
                ELSE pc' = "for" /\ UNCHANGED <<outcome, exit_code>>
    /\ new_log_lines' = <<>> /\ parsed_lines' = <<>> /\ results' = NoResults
    /\ UNCHANGED <<dump, args, attempt_no, submits, waits, polls, tries, lf, raised>>

\* retriable_follow_job: `return job` through the finally clause, and main's
\* sys.exit(exit_code)
Return ==
    /\ pc = "return"
    /\ \E show \in ProxyCalls :
          /\ now' = now + PROXY_SLEEP_SEC * show.slept
          /\ job' = print_job_final_status(job)
          /\ IF show.result # "ok" THEN Exit(show.result, 1)
             ELSE Exit("returned", IF job'.status = "pass" THEN 0 ELSE 1)
    /\ results' = NoResults
    /\ UNCHANGED <<proxy_call, dump, args, attempt_no, submits, cancels, waits, polls, tries, lf,
                   new_log_lines, parsed_lines, raised, attempt_log>>

Fetch == FetchAfter(RunDelays)
GetLogs == GetLogsFrom(RunBatches)

Next ==
    \/ Main
    \/ NewAttempt
    \/ RaiseRetryError
    \/ Submit
    \/ IsStarted
    \/ While
    \/ Fetch
    \/ GetLogsFails
    \/ GetLogs
    \/ PrintLog
    \/ FindLavaError
    \/ Interrupt
    \/ Handle
    \/ Return

Spec == Init /\ [][Next]_vars

-----------------------------------------------------------------------------
(* The polling loop of one attempt, follow_job_execution from `while not   *)
(* job.is_finished` on, over every batch of Lines up to MaxBatchLen lines. *)
(* It starts where IsStarted leaves the first attempt.                     *)

InitFollow ==
    /\ pc = "while"
    /\ args \in [validate_only : {FALSE}, job_timeout : JobTimeouts]
    /\ dump = NoDump
    /\ now = 0
    /\ attempt_no = 1
    /\ job = heartbeat([LAVAJob EXCEPT !.job_id = 1], 0)
    /\ submits = 1
    /\ cancels = 0
    /\ waits = 0
    /\ polls = 0
    /\ tries = 0
    /\ lf = [NoFollower EXCEPT !.current_section =
                start_section(GitlabSection("lava_boot", <<"LAVA boot">>, LAVA_BOOT, TRUE), 0)]
    /\ new_log_lines = <<>>
    /\ parsed_lines = <<>>
    /\ results = NoResults
    /\ raised = NoException
    /\ attempt_log = {}
    /\ outcome = "running"
    /\ exit_code = -1
    /\ proxy_call = NoCall

FetchLogs == FetchAfter(LogDelays)
GetLogsBatch == GetLogsFrom(Batches)

NextFollow ==
    \/ While
    \/ FetchLogs
    \/ GetLogsFails
    \/ GetLogsBatch
    \/ PrintLog

SpecFollow == InitFollow /\ [][NextFollow]_vars

-----------------------------------------------------------------------------
(* The polling loop over a connection that raises ProtocolError: every      *)
(* scheduler.jobs.logs call succeeds after some retries of _call_proxy      *)

\* the ProtocolErrors before the answer of one scheduler.jobs.logs call
FetchErrorCounts == {0, 1, 19, 20}

\* the seconds _call_proxy sleeps before such an answer
RetryDelays == {PROXY_SLEEP_SEC * _call_proxy(k, "ok").slept : k \in FetchErrorCounts}

FetchRetried == FetchAfter(RetryDelays)

NextFlaky ==
    \/ While
    \/ FetchRetried
    \/ GetLogsFails
    \/ GetLogsBatch
    \/ PrintLog

SpecFlaky == InitFollow /\ [][NextFlaky]_vars

-----------------------------------------------------------------------------
(* The polling loop with batches that take the log through all its phases   *)

GateBatches ==
    SeqsUpTo({ Line("target", <<PlainFragment>>),
               Line("target", <<PassFragment>>),
               Line("debug", <<StartTcFragment>>),
               Line("debug", <<StartRunFragment>>),
               Line("debug", <<EndTcFragment>>) }, MaxBatchLen)

GetLogsGated == GetLogsFrom(GateBatches)

NextGate ==
    \/ While
    \/ Fetch
    \/ GetLogsFails
    \/ GetLogsGated
    \/ PrintLog

SpecGate == InitFollow /\ [][NextGate]_vars

-----------------------------------------------------------------------------
(* The polling loop with batches of transmit errors and NFS complaints       *)

HintBatches ==
    SeqsUpTo({ Line("debug", <<StartTcFragment>>),
               Line("target", <<R8152Fragment>>),
               Line("debug", <<R8152Fragment>>),
               Line("target", <<NfsFragment>>),
               Line("target", <<PlainFragment>>) }, MaxBatchLen)

GetLogsHints == GetLogsFrom(HintBatches)

NextHints ==
    \/ While
    \/ Fetch
    \/ GetLogsFails
    \/ GetLogsHints
    \/ PrintLog

SpecHints == InitFollow /\ [][NextHints]_vars

-----------------------------------------------------------------------------
(* One attempt from the submission on, with a scheduler that takes its time *)
(* to answer job_state, as test_simulate_a_long_wait_to_start_a_job has it  *)

\* the seconds the answer of scheduler.job_state takes to arrive
WaitTimes == {0, 2 * DEVICE_HANGING_TIMEOUT_SEC}

InitWait ==
    /\ pc = "wait"
    /\ args \in [validate_only : {FALSE}, job_timeout : JobTimeouts]
    /\ dump = NoDump
    /\ now = 0
    /\ attempt_no = 1
    /\ job = [LAVAJob EXCEPT !.job_id = 1]
    /\ submits = 1
    /\ cancels = 0
    /\ waits = 0
    /\ polls = 0
    /\ tries = 0
    /\ lf = NoFollower
    /\ new_log_lines = <<>>
    /\ parsed_lines = <<>>
    /\ results = NoResults
    /\ raised = NoException
    /\ attempt_log = {}
    /\ outcome = "running"
    /\ exit_code = -1
    /\ proxy_call = NoCall

IsStartedLate == IsStartedAfter(WaitTimes)

NextWait ==
    \/ IsStartedLate
    \/ While
    \/ Fetch
    \/ GetLogsFails
    \/ GetLogs
    \/ PrintLog
    \/ FindLavaError
    \/ Handle
    \/ Return

SpecWait == InitWait /\ [][NextWait]_vars

-----------------------------------------------------------------------------
(* The LogFollower alone: lines are fed one at a time, `polls` counts them,  *)
(* parsed_lines is what flush() returns after each.                          *)

SectionLines ==
    { Line("target", <<PlainFragment>>),
      Line("debug", <<StartTcFragment>>),
      Line("target", <<StartTcFragment>>),
      Line("debug", <<StartRunFragment>>),
      Line("debug", <<EndTcFragment>>),
      Line("debug", <<StartTcFragment, EndTcFragment>>),
      KernelDumpLine("debug") }

\* the seconds between one line and the next
SectionDelays ==
    {0, 1} \cup {GL_SECTION_TIMEOUTS(job_timeout)[type] + more :
                    job_timeout \in JobTimeouts, type \in {LAVA_BOOT, TEST_CASE},
                    more \in {0, 1}}

\* LogFollower(), and LogFollower(current_section=gl) of follow_job_execution
InitSections ==
    /\ pc = "feed"
    /\ args \in [validate_only : {FALSE}, job_timeout : JobTimeouts]
    /\ dump = NoDump
    /\ now = 0
    /\ attempt_no = 1
    /\ job = heartbeat([LAVAJob EXCEPT !.job_id = 1], 0)
    /\ submits = 1
    /\ cancels = 0
    /\ waits = 0
    /\ polls = 0
    /\ tries = 0
    /\ lf \in {NoFollower,
               [NoFollower EXCEPT !.current_section =
                   start_section(GitlabSection("lava_boot", <<"LAVA boot">>, LAVA_BOOT, TRUE),
                                 0)]}
    /\ new_log_lines = <<>>
    /\ parsed_lines = <<>>
    /\ results = NoResults
    /\ raised = NoException
    /\ attempt_log = {}
    /\ outcome = "running"
    /\ exit_code = -1
    /\ proxy_call = NoCall

\* log_follower.feed([line]) and log_follower.flush()
FeedLineFrom(lines, delays) ==
    /\ pc = "feed"
    /\ polls < MaxFeeds
    /\ \E line \in lines, delay \in delays :
          /\ now' = now + delay
          /\ new_log_lines' = <<line>>
          /\ IF watchdog_raises(lf.current_section, GL_SECTION_TIMEOUTS(args.job_timeout),
                                now')
             THEN /\ Raise(MesaCITimeoutError(
                               SectionTimedOut,
                               timeout_duration(GL_SECTION_TIMEOUTS(args.job_timeout),
                                                lf.current_section)))
                  /\ UNCHANGED <<lf, parsed_lines>>
             ELSE \E fed \in {feed(lf.current_section, <<line>>, now')} :
                  /\ lf' = [lf EXCEPT !.current_section = fed.current_section]
                  /\ IF ~detect_kernel_dump_line(line) /\ parse_lava_line_raises(line)
                     THEN /\ Raise(Exception("TypeError"))
                          /\ parsed_lines' = <<>>
                     ELSE /\ parsed_lines' = fed.buffer
                          /\ UNCHANGED <<pc, raised>>
    /\ polls' = polls + 1
    /\ UNCHANGED <<proxy_call, dump, args, attempt_no, job, submits, cancels, waits, tries, results,
                   attempt_log, outcome, exit_code>>

FeedLine == FeedLineFrom(SectionLines, SectionDelays)

\* LogFollower.__exit__: clear_current_section() and flush()
ExitFollower ==
    /\ pc \in {"feed", "except"}
    /\ pc' = "exited"
    /\ \E cleared \in {clear_current_section([current_section |-> lf.current_section,
                                              buffer |-> <<>>, healthy |-> FALSE], now)} :
          /\ lf' = [lf EXCEPT !.current_section = cleared.current_section]
          /\ parsed_lines' = cleared.buffer
    /\ new_log_lines' = <<>>
    /\ UNCHANGED <<proxy_call, dump, args, now, attempt_no, job, submits, cancels, waits, polls, tries,
                   results, raised, attempt_log, outcome, exit_code>>

NextSections == FeedLine \/ ExitFollower

\* lines whose msg is a list, one of them with a line of LOG_SECTIONS among
\* its items, and lines that open and close sections
ListLines ==
    { KernelDumpLine("debug"),
      [KernelDumpLine("debug") EXCEPT !.msg = <<StartTcFragment>>],
      [KernelDumpLine("target") EXCEPT !.msg = <<StartTcFragment>>],
      [KernelDumpLine("warning") EXCEPT !.msg = <<StartTcFragment>>],
      Line("debug", <<StartTcFragment>>),
      Line("debug", <<EndTcFragment>>),
      Line("target", <<PlainFragment>>) }

FeedListLine == FeedLineFrom(ListLines, {0, 1})

NextLists == FeedListLine \/ ExitFollower

SpecLists == InitSections /\ [][NextLists]_vars

SpecSections == InitSections /\ [][NextSections]_vars

-----------------------------------------------------------------------------
(* The LogFollower fed with lines of the device that hold colour codes with  *)
(* and without their escape byte, and the same text on another channel.      *)

MaxCodes == 2

ColourLines ==
    { Line(lvl, str_join(texts)) :
        lvl \in {"target", "info"},
        texts \in SeqsUpTo({ <<"[", "0", "m">>,
                             <<"[", "1", ";", "3", "1", "m">>,
                             <<"[", "4", ";", "4", "1", ";", "9", "7", "m">>,
                             <<"[", "1", ";", "3", "8", ";", "5", ";", "1", "9", "7", "m">>,
                             <<"[", "1", "0", "0", "0", "m">>,
                             <<"[", "4", ";", "9", "7", " ">>,
                             <<"<ESC>">>,
                             <<"ERROR - dEQP error: ">> }, MaxCodes) }

\* the first line that the LogFollower is fed
FeedColourLine == polls = 0 /\ FeedLineFrom(ColourLines, {0})

NextColour == FeedColourLine \/ ExitFollower

SpecColour == InitSections /\ [][NextColour]_vars

-----------------------------------------------------------------------------
(* hide_sensitive_data alone, on job definitions put together from a few     *)
(* fragments of text and with the default or a custom tag.                   *)

MaxFragments == 3

HIDEME == <<"H", "I", "D", "E", "M", "E">>

DELETETHISLINE ==
    <<"D", "E", "L", "E", "T", "E", "T", "H", "I", "S", "L", "I", "N", "E">>

YamlFragments ==
    {HIDEME, DELETETHISLINE, <<"H", "I", "D", "E">>, <<"M", "E">>,
     <<"-", " ", "x", ":", " ", "y", " ", "#", " ">>, <<"\n">>}

InitHide ==
    /\ pc = "hide"
    /\ args \in [validate_only : {FALSE}, job_timeout : JobTimeouts]
    /\ dump \in [yaml_data : {str_join(fragments) :
                                 fragments \in SeqsUpTo(YamlFragments, MaxFragments)},
                   hide_tag : {HIDEME, DELETETHISLINE},
                   result : {NoDump.result}]
    /\ now = 0
    /\ attempt_no = 0
    /\ job = LAVAJob
    /\ submits = 0
    /\ cancels = 0
    /\ waits = 0
    /\ polls = 0
    /\ tries = 0
    /\ lf = NoFollower
    /\ new_log_lines = <<>>
    /\ parsed_lines = <<>>
    /\ results = NoResults
    /\ raised = NoException
    /\ attempt_log = {}
    /\ outcome = "running"
    /\ exit_code = -1
    /\ proxy_call = NoCall

\* hide_sensitive_data(yaml_data, hide_tag) returns
HideSensitiveData ==
    /\ pc = "hide"
    /\ pc' = "hidden"
    /\ dump' = [dump EXCEPT !.result = hide_sensitive_data(dump.yaml_data, dump.hide_tag)]
    /\ UNCHANGED <<args, now, attempt_no, job, submits, cancels, waits, polls, tries, lf,
                   new_log_lines, parsed_lines, results, raised, attempt_log, outcome,
                   exit_code, proxy_call>>

NextHide == HideSensitiveData

SpecHide == InitHide /\ [][NextHide]_vars

-----------------------------------------------------------------------------
(* _call_proxy(fn, *args), one iteration of its for loop at a time.        *)
(* proxy_call is [fn, n, calls, sleeps, invoked, error, answer, result]:   *)
(* the remote method, the loop variable n, the invocations of fn and the   *)
(* time.sleep(15) made so far, the methods that were invoked, the          *)
(* exception the last invocation raised, what fn returned, and what        *)
(* _call_proxy returned.                                                   *)

\* the remote methods that are called through _call_proxy
ProxyFns == {"scheduler.jobs.validate", "scheduler.jobs.submit", "scheduler.job_state",
             "scheduler.jobs.logs", "results.get_testjob_results_yaml",
             "scheduler.jobs.show"}

\* what fn returns
ProxyReturns == {"value", "other value"}

InitProxy ==
    /\ pc = "call_proxy"
    /\ args \in [validate_only : {FALSE}, job_timeout : JobTimeouts]
    /\ dump = NoDump
    /\ now = 0
    /\ attempt_no = 0
    /\ job = LAVAJob
    /\ submits = 0
    /\ cancels = 0
    /\ waits = 0
    /\ polls = 0
    /\ tries = 0
    /\ lf = NoFollower
    /\ new_log_lines = <<>>
    /\ parsed_lines = <<>>
    /\ results = NoResults
    /\ raised = NoException
    /\ attempt_log = {}
    /\ outcome = "running"
    /\ exit_code = -1
    /\ proxy_call \in {[NoCall EXCEPT !.fn = fn] : fn \in ProxyFns}

\* `for n in range(1, retries + 1)`: one more iteration, and fn(*args) in it
invoke(call) ==
    [call EXCEPT !.n = @ + 1, !.calls = @ + 1, !.invoked = @ \cup {call.fn}]

\* the variables _call_proxy leaves alone
ProxyFrame ==
    UNCHANGED <<dump, args, attempt_no, job, submits, cancels, waits, polls, tries, lf,
                new_log_lines, parsed_lines, results, attempt_log>>

\* fn(*args) returns: `return fn(*args)`
ProxyReturn ==
    /\ pc = "call_proxy"
    /\ proxy_call.n < PROXY_RETRIES
    /\ \E value \in ProxyReturns :
          proxy_call' = [invoke(proxy_call) EXCEPT !.error = "", !.answer = value,
                                                   !.result = value]
    /\ pc' = "proxy_return"
    /\ UNCHANGED <<now, raised, outcome, exit_code>>
    /\ ProxyFrame

\* ProxyProtocolError without `if n == retries: fatal_err(...)`: the loop
\* ends after a last sleep and _call_proxy returns None
ProxyProtocolError_NoFatal ==
    /\ pc = "call_proxy"
    /\ proxy_call.n < PROXY_RETRIES
    /\ proxy_call' = [invoke(proxy_call) EXCEPT !.error = "ProtocolError",
                                                !.sleeps = @ + 1]
    /\ now' = now + PROXY_SLEEP_SEC
    /\ pc' = IF proxy_call.n + 1 = PROXY_RETRIES THEN "proxy_return" ELSE pc
    /\ UNCHANGED <<raised, outcome, exit_code>>
    /\ ProxyFrame

\* fn(*args) raises xmlrpc.client.ProtocolError: fatal_err when n == retries,
\* time.sleep(15) otherwise
ProxyProtocolError ==
    /\ pc = "call_proxy"
    /\ proxy_call.n < PROXY_RETRIES
    /\ IF proxy_call.n + 1 = PROXY_RETRIES
       THEN /\ proxy_call' = [invoke(proxy_call) EXCEPT !.error = "ProtocolError"]
            /\ raised' = Exception("SystemExit")
            /\ Exit("SystemExit", 1)
            /\ UNCHANGED now
       ELSE /\ proxy_call' = [invoke(proxy_call) EXCEPT !.error = "ProtocolError",
                                                        !.sleeps = @ + 1]
            /\ now' = now + PROXY_SLEEP_SEC
            /\ UNCHANGED <<pc, raised, outcome, exit_code>>
    /\ ProxyFrame

\* ProxyFault with the Fault handled as the ProtocolError is
ProxyFault_Retried ==
    /\ pc = "call_proxy"
    /\ proxy_call.n < PROXY_RETRIES
    /\ IF proxy_call.n + 1 = PROXY_RETRIES
       THEN /\ proxy_call' = [invoke(proxy_call) EXCEPT !.error = "Fault"]
            /\ raised' = Exception("SystemExit")
            /\ Exit("SystemExit", 1)
            /\ UNCHANGED now
       ELSE /\ proxy_call' = [invoke(proxy_call) EXCEPT !.error = "Fault", !.sleeps = @ + 1]
            /\ now' = now + PROXY_SLEEP_SEC
            /\ UNCHANGED <<pc, raised, outcome, exit_code>>
    /\ ProxyFrame

\* fn(*args) raises xmlrpc.client.Fault: fatal_err
ProxyFault ==
    /\ pc = "call_proxy"
    /\ proxy_call.n < PROXY_RETRIES
    /\ proxy_call' = [invoke(proxy_call) EXCEPT !.error = "Fault"]
    /\ raised' = Exception("SystemExit")
    /\ Exit("SystemExit", 1)
    /\ UNCHANGED now
    /\ ProxyFrame

\* fn(*args) raises an exception _call_proxy has no except clause for
ProxyRaise ==
    /\ pc = "call_proxy"
    /\ proxy_call.n < PROXY_RETRIES
    /\ proxy_call' = [invoke(proxy_call) EXCEPT !.error = "Exception"]
    /\ raised' = Exception("Exception")
    /\ pc' = "proxy_raise"
    /\ UNCHANGED <<now, outcome, exit_code>>
    /\ ProxyFrame

NextProxy ==
    \/ ProxyReturn
    \/ ProxyProtocolError
    \/ ProxyFault
    \/ ProxyRaise

SpecProxy == InitProxy /\ [][NextProxy]_vars

-----------------------------------------------------------------------------
(* The retry orchestrator *)

\* the verdicts of a job
Verdicts == {"pass", "fail"}

\* the ways a run ends that are not retriable_follow_job's own: _call_proxy's
\* sys.exit, a KeyboardInterrupt, an exception no except clause catches
FatalOutcomes == {"SystemExit", "KeyboardInterrupt", "Exception"}

\* C1: when every attempt so far ended in a timeout, retriable_follow_job
\* starts a further attempt as long as fewer than N+1 were made; after the
\* (N+1)-th one, N+1 jobs were constructed and submitted, MesaCIRetryError is
\* raised and no attempt is started
C1_RetryBoundOnTimeouts ==
    [][(pc = "for" /\ attempt_log = {"MesaCITimeoutError"}) =>
          IF attempt_no < NUMBER_OF_RETRIES_TIMEOUT_DETECTION + 1
          THEN /\ submits = attempt_no
               /\ attempt_no' = attempt_no + 1
               /\ pc' = "submit"
               /\ outcome' = "running"
          ELSE /\ attempt_no = NUMBER_OF_RETRIES_TIMEOUT_DETECTION + 1
               /\ submits = NUMBER_OF_RETRIES_TIMEOUT_DETECTION + 1
               /\ attempt_no' = attempt_no
               /\ submits' = submits
               /\ raised'.type = "MesaCIRetryError"
               /\ outcome' = "MesaCIRetryError"
               /\ pc' = "done"]_vars

\* the run ended in MesaCIRetryError after N+1 attempts that all timed out
C1_Witness ==
    /\ outcome = "MesaCIRetryError"
    /\ attempt_log = {"MesaCITimeoutError"}
    /\ attempt_no = NUMBER_OF_RETRIES_TIMEOUT_DETECTION + 1
    /\ submits = NUMBER_OF_RETRIES_TIMEOUT_DETECTION + 1

\* C2: whatever failures end the attempts, never more than N+1 jobs are
\* constructed, and never more than N+1 are submitted
C2_AttemptsBounded ==
    /\ attempt_no <= NUMBER_OF_RETRIES_TIMEOUT_DETECTION + 1
    /\ submits <= attempt_no

\* N+1 attempts were made and ended in three different retryable failures
C2_Witness ==
    /\ attempt_no = NUMBER_OF_RETRIES_TIMEOUT_DETECTION + 1
    /\ pc = "done"
    /\ attempt_log = {"MesaCIKnownIssueException", "MesaCIParseException",
                      "MesaCIException"}

\* C3: a job that retriable_follow_job returns has the status pass or fail;
\* when the attempts are used up the last job has no verdict, and
\* MesaCIRetryError is raised instead of a return
C3_ReturnedJobHasVerdict ==
    /\ (pc = "return" \/ outcome = "returned") => job.status \in Verdicts
    /\ outcome = "MesaCIRetryError" =>
          /\ job.status \notin Verdicts
          /\ raised.type = "MesaCIRetryError"
          /\ attempt_no = NUMBER_OF_RETRIES_TIMEOUT_DETECTION + 1
    /\ (pc = "done" /\ outcome \notin FatalOutcomes \cup {"validated"}) =>
          outcome \in {"returned", "MesaCIRetryError"}

\* a job is returned with the verdict pass after an attempt that failed
C3_Witness ==
    /\ outcome = "returned"
    /\ job.status = "pass"
    /\ attempt_log # {}

\* C4: once the job of an attempt has the verdict pass or fail, the verdict
\* stays, no job is constructed or submitted any more, and the only steps
\* left are the ones that lead from the polling loop to the return
C4_VerdictReturnsAtOnce ==
    [][job.status \in Verdicts =>
          /\ job'.status = job.status
          /\ attempt_no' = attempt_no
          /\ submits' = submits
          /\ pc' \in {"while", "return", "done"}
          /\ pc \in {"while", "return"} => pc' \in {"return", "done"}
          /\ raised' = NoException]_vars

\* the second attempt's job is returned with the verdict fail, one attempt unused
C4_Witness ==
    /\ outcome = "returned"
    /\ job.status = "fail"
    /\ attempt_no = NUMBER_OF_RETRIES_TIMEOUT_DETECTION
    /\ submits = attempt_no

-----------------------------------------------------------------------------
(* The verdict *)

\* the lines of a fetched batch that carry the sentinel
SentinelLines(lines) ==
    {i \in 1..Len(lines) : ~lines[i].is_list /\ SearchResult(lines[i].msg) # 0}

\* the marker of the sentinel line i of a batch
Marker(lines, i) == ResultGroup(lines[i].msg[SearchResult(lines[i].msg)])

\* C5: after a poll whose batch holds exactly one sentinel line, the job's
\* status is the marker of that line, the job is finished, and the lines that
\* are printed end with the sentinel line
C5_SentinelSetsVerdict ==
    (pc = "print" /\ Cardinality(SentinelLines(new_log_lines)) = 1) =>
        \A i \in SentinelLines(new_log_lines) :
            /\ job.status = Marker(new_log_lines, i)
            /\ job.is_finished
            /\ parsed_lines # <<>>
            /\ SearchResult(parsed_lines[Len(parsed_lines)].text) # 0

\* C6: a run of retriable_follow_job exits with 0 only if the returned job
\* has the status pass; a fail verdict, MesaCIRetryError and _call_proxy's
\* sys.exit end it with a status that is not 0; and a fetched target line
\* "hwci: mesa: pass" sets the status pass and ends the polling loop
C6_ExitStatus ==
    /\ (exit_code = 0 /\ attempt_no > 0) => (outcome = "returned" /\ job.status = "pass")
    /\ (outcome = "returned" /\ job.status = "fail") => exit_code > 0
    /\ outcome \in {"MesaCIRetryError", "SystemExit"} => exit_code > 0
    /\ (pc = "print" /\ \E i \in 1..Len(new_log_lines) :
                            new_log_lines[i] = Line("target", <<PassFragment>>)) =>
          (job.status = "pass" /\ job.is_finished)

-----------------------------------------------------------------------------
(* The structured results *)

\* an entry of the results reports error_type Infrastructure or Job, or a
\* failed validate case
ReportsError(loaded) ==
    \E i \in 1..Len(loaded) :
        \/ loaded[i].metadata.error_type \in {"Infrastructure", "Job"}
        \/ loaded[i].metadata.case = "validate" /\ loaded[i].metadata.result = "fail"

\* an entry of the results is a failure (result fail) of error_type
\* Infrastructure or Job, or of the validate case
ReportsRetryableFailure(loaded) ==
    \E i \in 1..Len(loaded) :
        /\ loaded[i].metadata.result = "fail"
        /\ \/ loaded[i].metadata.error_type = "Infrastructure"
           \/ loaded[i].metadata.error_type = "Job"
           \/ loaded[i].metadata.case = "validate"

\* C7 as stated: results that report error_type Infrastructure, error_type Job
\* or a failed validate case make find_lava_error raise MesaCIException, and
\* the job does not get the verdict fail
C7_ErrorTypeIsRetried ==
    [][(pc = "find_lava_error" /\ ReportsError(results')) =>
          /\ pc' = "except"
          /\ raised'.type = "MesaCIException"
          /\ job'.status # "fail"]_vars

\* C7, amended: results with a failed entry (result fail) of error_type
\* Infrastructure or Job, or of the validate case, make find_lava_error raise
\* MesaCIException; the job keeps the status running and is not returned
C7_FailedErrorTypeIsRetried ==
    [][(pc = "find_lava_error" /\ ReportsRetryableFailure(results')) =>
          /\ pc' = "except"
          /\ raised'.type = "MesaCIException"
          /\ job'.status = "running"
          /\ outcome' = "running"]_vars

\* the job finished without a sentinel, its results hold a failed entry of
\* error_type Job, and MesaCIException was raised
C7_Witness ==
    /\ pc = "except"
    /\ raised.type = "MesaCIException"
    /\ job.is_finished /\ job.status = "running"
    /\ \E i \in 1..Len(results) :
          results[i].metadata.result = "fail" /\ results[i].metadata.error_type = "Job"

\* C8: when find_lava_error has loaded results without a failed entry of
\* error_type Infrastructure or Job or of the validate case, the job gets the
\* status fail and goes to the return of the same attempt
C8_NoErrorMeansFail ==
    [][(/\ pc = "find_lava_error"
        /\ raised'.type \notin {"SystemExit", "Exception"}
        /\ ~ReportsRetryableFailure(results')) =>
          /\ pc' = "return"
          /\ job'.status = "fail"
          /\ raised' = NoException
          /\ attempt_no' = attempt_no]_vars

\* the job finished without a sentinel, its results hold a failed entry of
\* error_type Test, and the job is about to be returned with the status fail
C8_Witness ==
    /\ pc = "return"
    /\ job.status = "fail"
    /\ \E i \in 1..Len(results) :
          results[i].metadata.result = "fail" /\ results[i].metadata.error_type = "Test"

-----------------------------------------------------------------------------
(* The polling loop *)

\* C9: fetch_logs starts with the test of the silence: when now -
\* last_log_time is more than DEVICE_HANGING_TIMEOUT_SEC it raises
\* MesaCITimeoutError with that threshold, without a sleep or a fetch; when
\* it is the threshold or less (one second less too) it raises nothing and
\* goes on to sleep and fetch
C9_HangDetection ==
    [][pc = "fetch" =>
          IF now - job.last_log_time > DEVICE_HANGING_TIMEOUT_SEC
          THEN /\ pc' = "except"
               /\ raised'.type = "MesaCITimeoutError"
               /\ raised'.msg = DoesNotRespond
               /\ raised'.timeout_duration = DEVICE_HANGING_TIMEOUT_SEC
               /\ now' = now /\ polls' = polls /\ job' = job
          ELSE /\ pc' = "get_logs"
               /\ raised' = NoException
               /\ now' >= now + LOG_POLLING_TIME_SEC
               /\ polls' = polls + 1]_vars

\* the silence was one second over the threshold when the poll started, and
\* the poll raised the timeout
C9_Witness ==
    /\ pc = "except"
    /\ raised.msg = DoesNotRespond
    /\ raised.timeout_duration = DEVICE_HANGING_TIMEOUT_SEC
    /\ now - job.last_log_time = DEVICE_HANGING_TIMEOUT_SEC + 1

\* C10: in one poll get_logs fails at most 5 times and is not called after
\* the fifth failure; a batch that decodes after fewer failures is processed
\* without an exception; MesaCIParseException is raised only after 5
\* failures; and when every attempt ended in MesaCIParseException the next
\* attempt is made until N+1 were made, and MesaCIRetryError ends the run
C10_LogFetchRetries ==
    [][/\ tries' <= 5
       /\ pc' = "get_logs" => tries' < 5
       /\ pc' = "print" => (tries' < 5 /\ raised' = NoException)
       /\ raised'.type = "MesaCIParseException" => tries' = 5
       /\ (pc = "get_logs" /\ tries' = 5) =>
              (pc' = "except" /\ raised'.type = "MesaCIParseException")
       /\ (pc = "for" /\ attempt_log = {"MesaCIParseException"}) =>
              IF attempt_no < NUMBER_OF_RETRIES_TIMEOUT_DETECTION + 1
              THEN pc' = "submit"
              ELSE outcome' = "MesaCIRetryError"]_vars

\* every attempt ended in MesaCIParseException after 5 failed get_logs, and
\* the run ended in MesaCIRetryError
C10_Witness ==
    /\ outcome = "MesaCIRetryError"
    /\ attempt_log = {"MesaCIParseException"}
    /\ tries = 5
    /\ polls = 1

-----------------------------------------------------------------------------
(* The RPC wrapper *)

\* C11: _call_proxy invokes the same remote method at most 60 times, every
\* invocation but the one that ends the call is followed by one
\* time.sleep(15), 60 protocol errors end the process with exit status 1,
\* and when an invocation returns, its value is what _call_proxy returns
C11_ProxyRetries ==
    /\ proxy_call.calls <= 60
    /\ proxy_call.calls = proxy_call.n
    /\ proxy_call.invoked \subseteq {proxy_call.fn}
    /\ now = 15 * proxy_call.sleeps
    /\ pc = "call_proxy" =>
          (proxy_call.sleeps = proxy_call.calls /\ proxy_call.calls < 60)
    /\ pc # "call_proxy" => proxy_call.sleeps = proxy_call.calls - 1
    /\ (pc # "call_proxy" /\ proxy_call.error = "ProtocolError") =>
          /\ proxy_call.calls = 60
          /\ pc = "done" /\ outcome = "SystemExit" /\ exit_code = 1
    /\ pc = "proxy_return" =>
          /\ proxy_call.error = ""
          /\ proxy_call.result = proxy_call.answer
          /\ proxy_call.result \in ProxyReturns
          /\ exit_code = -1

\* the 60th invocation raised a protocol error after 59 sleeps of 15 s, and
\* the process ended with exit status 1
C11_Witness ==
    /\ pc = "done"
    /\ proxy_call.error = "ProtocolError"
    /\ proxy_call.calls = 60
    /\ proxy_call.sleeps = 59
    /\ now = 885
    /\ exit_code = 1

\* C12: an invocation that raises xmlrpc Fault ends _call_proxy and the
\* process at once with exit status 1: fn is not invoked again and no sleep
\* follows the Fault
C12_FaultIsFatal ==
    proxy_call.error = "Fault" =>
        /\ pc = "done"
        /\ outcome = "SystemExit"
        /\ exit_code = 1
        /\ raised.type = "SystemExit"
        /\ proxy_call.sleeps = proxy_call.calls - 1
        /\ now = PROXY_SLEEP_SEC * (proxy_call.calls - 1)

\* the first invocation raised a Fault: one invocation, no sleep, exit status 1
C12_Witness ==
    /\ proxy_call.error = "Fault"
    /\ proxy_call.calls = 1
    /\ proxy_call.sleeps = 0
    /\ now = 0
    /\ exit_code = 1

-----------------------------------------------------------------------------
(* Submission failure *)

\* C13: an exception of job.submit() leaves follow_job_execution as a
\* MesaCIException raised from it (sys.exit apart), with no job id; the
\* except clause sends no cancel and lets nothing propagate, so the for loop
\* goes on, unless show_job_data in the finally clause ends the process
C13_SubmitFailureIsRetried ==
    [][/\ (pc = "submit" /\ pc' = "except" /\ raised'.type # "SystemExit") =>
              /\ raised'.type = "MesaCIException"
              /\ raised'.cause = "Exception"
              /\ job'.job_id = NoJobId
       /\ (pc = "except" /\ raised.cause # NoCause) =>
              /\ cancels' = cancels
              /\ job'.status = "created"
              /\ \/ pc' = "for" /\ outcome' = "running"
                 \/ pc' = "done" /\ outcome' \in {"SystemExit", "Exception"}
       /\ (pc = "for" /\ raised.cause # NoCause
              /\ attempt_no < NUMBER_OF_RETRIES_TIMEOUT_DETECTION + 1) =>
              (pc' = "submit" /\ attempt_no' = attempt_no + 1)]_vars

\* the second attempt is about to be submitted after the submission of the
\* first one failed
C13_Witness ==
    /\ pc = "for"
    /\ attempt_no = 1
    /\ raised.type = "MesaCIException"
    /\ raised.cause = "Exception"
    /\ job.job_id = NoJobId
    /\ attempt_log = {"MesaCIException"}

-----------------------------------------------------------------------------
(* Cancelling the remote job *)

\* C14: when an attempt whose job was submitted ends in a retryable exception
\* (timeout, parse failure, known issue, infrastructure or job error) or in a
\* KeyboardInterrupt, the cancel of that job is sent before the next attempt
\* is submitted or the run ends
C14_CancelOnRetryable ==
    [][(/\ pc = "except"
        /\ job.job_id # NoJobId
        /\ raised.type \in MesaCIExceptions
                             \cup {"MesaCIKnownIssueException", "KeyboardInterrupt"})
          => cancels' = cancels + 1]_vars

\* C15: a KeyboardInterrupt of an attempt sends the cancel of the attempt's
\* job and ends the run, whatever attempts remain: it is raised again out of
\* retriable_follow_job, unless the cancel itself raises or show_job_data in
\* the finally clause ends the process; no job is submitted after it
C15_InterruptEndsTheRun ==
    [][(pc = "except" /\ raised.type = "KeyboardInterrupt") =>
          /\ cancels' = cancels + 1
          /\ pc' = "done"
          /\ outcome' \in {"KeyboardInterrupt", "Exception", "SystemExit"}
          /\ (outcome' = "KeyboardInterrupt" => exit_code' = 130)
          /\ submits' = submits /\ attempt_no' = attempt_no]_vars

\* the first attempt was interrupted while polling, with retries left; its
\* job was cancelled and the run is over
C15_Witness ==
    /\ pc = "done"
    /\ outcome = "KeyboardInterrupt"
    /\ attempt_no = 1
    /\ polls > 0
    /\ cancels = 1
    /\ submits = 1

-----------------------------------------------------------------------------
(* Fatal errors of the RPC wrapper *)

\* C16: the sys.exit(1) of _call_proxy during an attempt is caught by no
\* except clause: no cancel is sent, no attempt is made or submitted after it
\* and the process ends with exit status 1
C16_FatalBypassesAttemptHandling ==
    [][(pc = "except" /\ raised.type = "SystemExit") =>
          /\ pc' = "done"
          /\ outcome' \in {"SystemExit", "Exception"}
          /\ exit_code' = 1
          /\ cancels' = cancels
          /\ submits' = submits /\ attempt_no' = attempt_no]_vars

\* the first attempt's job was submitted and a call of the proxy ended the
\* process, with retries left
C16_Witness ==
    /\ pc = "done"
    /\ raised.type = "SystemExit"
    /\ outcome = "SystemExit"
    /\ exit_code = 1
    /\ attempt_no = 1
    /\ job.job_id # NoJobId
    /\ cancels = 0

-----------------------------------------------------------------------------
(* Termination *)

\* follow_job_execution: `while not job.is_started(): time.sleep(...)` with no
\* count of its iterations: the scheduler answers one more waiting state,
\* another one than the last time. No time is read before the job has
\* started, so the clock of the model is left where it is.
StillWaiting ==
    /\ pc = "wait"
    /\ \E job_state \in WaitingStates \ {proxy_call.answer} :
          proxy_call' = [NoCall EXCEPT !.fn = "scheduler.job_state", !.calls = 1,
                                       !.invoked = {"scheduler.job_state"},
                                       !.answer = job_state, !.result = job_state]
    /\ UNCHANGED <<pc, dump, args, now, attempt_no, job, submits, cancels, waits, polls, tries, lf,
                   new_log_lines, parsed_lines, results, raised, attempt_log, outcome,
                   exit_code>>

\* the steps of the one thread of the program
Program ==
    \/ Main
    \/ NewAttempt
    \/ RaiseRetryError
    \/ Submit
    \/ IsStarted
    \/ StillWaiting
    \/ While
    \/ Fetch
    \/ GetLogsFails
    \/ GetLogs
    \/ PrintLog
    \/ FindLavaError
    \/ Handle
    \/ Return

NextLive == Program \/ Interrupt

\* the program goes on as long as it has a step to take; nothing makes a
\* SIGINT arrive
SpecLive == Init /\ [][NextLive]_vars /\ WF_vars(Program)

Polling == pc \in {"while", "fetch", "get_logs", "print"}

-----------------------------------------------------------------------------
(* Timeouts and activity *)

\* C18: no timeout is raised on a job whose lines (kernel dump lines apart)
\* come less than the hang threshold apart: when MesaCITimeoutError is raised
\* on a batch with such a line, the line before it is at least the threshold
\* old
C18_NoTimeoutWhileActive ==
    (pc = "except" /\ raised.type = "MesaCITimeoutError" /\ is_job_healthy(new_log_lines)) =>
        now - job.last_log_time >= DEVICE_HANGING_TIMEOUT_SEC

\* C18, amended: activity resets the hang timeout only. A batch with a line
\* that is no kernel dump line sets last_log_time to the time of the batch,
\* and the hang timeout is raised only when a poll starts more than the
\* threshold after last_log_time. The watchdog of the section is raised when
\* a batch is decoded more than the section's budget after the section
\* started, whatever the batch holds: no batch is processed then. These are
\* the only timeouts.
C18_OnlyHangTimeoutResets ==
    [][/\ (pc = "get_logs" /\ pc' = "print" /\ is_job_healthy(new_log_lines')) =>
              job'.last_log_time = now'
       /\ (pc' = "except" /\ raised'.type = "MesaCITimeoutError") =>
              \/ /\ pc = "fetch"
                 /\ raised'.msg = DoesNotRespond
                 /\ now - job.last_log_time > DEVICE_HANGING_TIMEOUT_SEC
              \/ /\ pc = "get_logs"
                 /\ raised'.msg = SectionTimedOut
                 /\ raised'.timeout_duration =
                       timeout_duration(GL_SECTION_TIMEOUTS(args.job_timeout),
                                        lf.current_section)
                 /\ now' - lf.current_section.start_time > raised'.timeout_duration
       /\ (pc = "get_logs" /\ pc' = "print") =>
              now - lf.current_section.start_time <=
                  timeout_duration(GL_SECTION_TIMEOUTS(args.job_timeout), lf.current_section)]_vars

\* the boot section timed out on a batch with a line that came 299 seconds
\* after the line before it
C18_Witness ==
    /\ pc = "except"
    /\ raised.msg = SectionTimedOut
    /\ is_job_healthy(new_log_lines)
    /\ job.last_log_time > 0
    /\ now - job.last_log_time = DEVICE_HANGING_TIMEOUT_SEC - 1

-----------------------------------------------------------------------------
(* The sections of the log *)

\* the sections the rules of LOG_SECTIONS make of a line
SectionsOf(line) ==
    IF detect_kernel_dump_line(line) THEN {}
    ELSE {from_log_line_to_section(LOG_SECTIONS[i], line) : i \in DOMAIN LOG_SECTIONS}
            \ {NoSection}

\* the indices of the section_start or section_end markers among printed lines
Markers(lines, marker) ==
    {i \in 1..Len(lines) :
        Len(lines[i].text) >= 3 /\ lines[i].text[2] = "section_" /\ lines[i].text[3] = marker}

\* a line was fed and the watchdog did not raise
Fed == pc = "feed" /\ pc' = "feed"

\* C19: a line that starts the section whose id is the id of the open
\* section changes nothing: the open section and its start time stay, and no
\* section_end and no section_start marker is emitted
C19_SectionIdempotence ==
    [][(/\ Fed
        /\ lf.current_section # NoSection
        /\ SectionsOf(new_log_lines'[1]) # {}
        /\ \A s \in SectionsOf(new_log_lines'[1]) : s.id = lf.current_section.id)
          => /\ lf'.current_section = lf.current_section
             /\ Markers(parsed_lines', "start") = {}
             /\ Markers(parsed_lines', "end") = {}]_vars

\* the test case section was opened by an earlier line, and the line fed
\* now, a second later at least, starts the same test case
C19_Witness ==
    /\ pc = "feed"
    /\ polls >= 2
    /\ lf.current_section.id = "case"
    /\ lf.current_section.start_time < now
    /\ SectionsOf(new_log_lines[1]) # {}
    /\ \A s \in SectionsOf(new_log_lines[1]) : s.id = "case"

\* C20: a line that starts a section of another id than the open section's
\* emits the section_end marker of the open section, with the time of the
\* line, which is not before the section's start, and after it the
\* section_start marker of the new section, one of each when one rule matches
\* the line; the section whose start marker comes last is the open one then.
\* Any line fed leaves as many sections open as were open, plus the markers of
\* start, minus the markers of end, and never two.
C20_OneOpenSection ==
    [][/\ (/\ Fed
           /\ lf.current_section # NoSection
           /\ \E s \in SectionsOf(new_log_lines'[1]) : s.id # lf.current_section.id)
          => /\ \E i \in Markers(parsed_lines', "end"), j \in Markers(parsed_lines', "start") :
                   /\ \A k \in Markers(parsed_lines', "end")
                                 \cup Markers(parsed_lines', "start") : i <= k /\ k <= j
                   /\ i < j
                   /\ parsed_lines'[i] = section(lf.current_section, "end", NoText, now')
                   /\ parsed_lines'[j] = section(lf'.current_section, "start",
                                                 lf'.current_section.header, now')
             /\ Cardinality(SectionsOf(new_log_lines'[1])) = 1 =>
                   /\ Cardinality(Markers(parsed_lines', "end")) = 1
                   /\ Cardinality(Markers(parsed_lines', "start")) = 1
             /\ now' >= lf.current_section.start_time
             /\ lf'.current_section \in
                   {start_section(s, now') : s \in SectionsOf(new_log_lines'[1])}
             /\ ~has_finished(lf'.current_section)
       /\ (pc = "feed" /\ pc' \in {"feed", "exited"}) =>
             LET Open(follower) == IF follower.current_section # NoSection THEN 1 ELSE 0
             IN Open(lf') = Open(lf) + Cardinality(Markers(parsed_lines', "start"))
                                     - Cardinality(Markers(parsed_lines', "end"))]_vars

\* the boot section was open for a second when the line that starts the
\* test case came
C20_Witness ==
    /\ pc = "feed"
    /\ polls = 2
    /\ now = 1
    /\ lf.current_section.id = "case"
    /\ lf.current_section.start_time = 1
    /\ Markers(parsed_lines, "end") = {1}
    /\ parsed_lines[1] =
          section(GitlabSection("lava_boot", <<"LAVA boot">>, LAVA_BOOT, TRUE), "end", NoText, 1)

-----------------------------------------------------------------------------
(* The retry-exhaustion error *)

\* C21: the MesaCIRetryError raised when the attempts are used up carries the
\* number of attempts that were made
C21_CarriesAttemptCount ==
    outcome = "MesaCIRetryError" => raised.retry_count = attempt_no

\* C21, amended: it carries retry_count = NUMBER_OF_RETRIES_TIMEOUT_DETECTION,
\* the number of retries, which is one less than the N+1 attempts that were
\* made and submitted
C21_CarriesRetryCount ==
    outcome = "MesaCIRetryError" =>
        /\ raised.type = "MesaCIRetryError"
        /\ raised.retry_count = NUMBER_OF_RETRIES_TIMEOUT_DETECTION
        /\ attempt_no = NUMBER_OF_RETRIES_TIMEOUT_DETECTION + 1
        /\ raised.retry_count = attempt_no - 1
        /\ job.status \notin Verdicts

\* three attempts were made, none with a verdict, and the error carries 2
C21_Witness ==
    /\ pc = "done"
    /\ outcome = "MesaCIRetryError"
    /\ attempt_no = 3
    /\ raised.retry_count = 2

-----------------------------------------------------------------------------
(* The wait for the start *)

-----------------------------------------------------------------------------
(* ProtocolErrors during the log fetch *)

-----------------------------------------------------------------------------
\* C24: hide_sensitive_data returns exactly the lines of the job definition
\* that do not contain the tag (the default HIDEME or the custom one), in
\* their original order and verbatim; a line that contains the tag, anywhere
\* in it, is dropped with its line end, and no occurrence of the tag is left.
C24_DropsMarkedLines ==
    pc = "hidden" =>
        LET lines == splitlines(dump.yaml_data, TRUE)
            out == splitlines(dump.result, TRUE)
            kept == {k \in 1..Len(lines) : ~str_in(dump.hide_tag, lines[k])}
            nth(j) == CHOOSE k \in kept : Cardinality({i \in kept : i < k}) = j - 1
        IN  /\ str_join(lines) = dump.yaml_data
            /\ str_join(out) = dump.result
            /\ Len(out) = Cardinality(kept)
            /\ \A j \in 1..Len(out) : out[j] = lines[nth(j)]
            /\ ~str_in(dump.hide_tag, dump.result)

\* a marked line between two unmarked ones is dropped, a line that holds the
\* other tag is kept
C24_Witness ==
    /\ pc = "hidden"
    /\ dump.hide_tag = HIDEME
    /\ dump.yaml_data = DELETETHISLINE \o <<"\n">> \o <<"H", "I", "D", "E">> \o <<"M", "E">>
    /\ dump.result = DELETETHISLINE \o <<"\n">>

-----------------------------------------------------------------------------
\* the positions of msg where a colour code without its escape byte starts:
\* "[", at most max_params numbers of digits set apart by ";", the last one of
\* at most max_digits digits, and "m"
ColourCodesIn(msg, max_params, max_digits) ==
    LET Digit == {"0", "1", "2", "3", "4", "5", "6", "7", "8", "9"}
        Code(i, e) ==
            /\ msg[i] = "["
            /\ msg[e] = "m"
            /\ \A k \in (i + 1)..(e - 1) : msg[k] \in Digit \cup {";"}
            /\ msg[i + 1] \in Digit
            /\ msg[e - 1] \in Digit
            /\ \A k \in (i + 1)..(e - 2) : ~(msg[k] = ";" /\ msg[k + 1] = ";")
            /\ Cardinality({k \in (i + 1)..(e - 1) : msg[k] = ";"}) < max_params
            /\ \E k \in 1..max_digits :
                  /\ e - 1 - k >= i
                  /\ msg[e - 1 - k] \in {"[", ";"}
                  /\ \A d \in (e - k)..(e - 1) : msg[d] \in Digit
    IN  {i \in 1..Len(msg) : \E e \in (i + 2)..Len(msg) : Code(i, e)}

\* out is msg with the escape byte put before each of the codes and nothing
\* else changed
RestoredAt(msg, out, codes) ==
    LET at(j) == j + Cardinality({i \in codes : i <= j}) IN
    /\ Len(out) = Len(msg) + Cardinality(codes)
    /\ \A j \in 1..Len(msg) : out[at(j)] = msg[j]
    /\ \A i \in codes : out[at(i) - 1] = "<ESC>"

\* C25 as stated: in a line of the target channel every colour code that came
\* without its escape byte, whatever the number of its parameters, has the
\* escape byte put before it (16 parameters are more than a line here has).
C25_RestoresEveryCode ==
    (pc = "feed" /\ new_log_lines # <<>> /\ new_log_lines[1].lvl = "target") =>
        /\ Len(parsed_lines) = 1
        /\ RestoredAt(new_log_lines[1].msg, parsed_lines[1].text,
                      ColourCodesIn(new_log_lines[1].msg, 16, 3))

\* C25: fix_lava_color_log puts the escape byte before every text of the
\* pattern in a line of the target channel, that is before "[", one to three
\* numbers set apart by ";", the last of them of at most three digits, "m",
\* also where the escape byte is there already, and changes nothing else: a
\* code of four parameters and a line without such a text stay as they are,
\* and so does a line of another channel.
C25_RestoresPatternCodes ==
    (pc = "feed" /\ new_log_lines # <<>>) =>
        /\ Len(parsed_lines) = 1
        /\ parsed_lines[1].prefix = ""
        /\ RestoredAt(new_log_lines[1].msg, parsed_lines[1].text,
                      IF new_log_lines[1].lvl = "target"
                      THEN ColourCodesIn(new_log_lines[1].msg, 3, 3)
                      ELSE {})
        /\ ColourCodesIn(new_log_lines[1].msg, 3, 3) = {}
               => parsed_lines[1].text = new_log_lines[1].msg

\* two mangled codes in one line of the target channel, both repaired
C25_Witness ==
    /\ pc = "feed"
    /\ new_log_lines = <<Line("target", <<"[", "0", "m", "[", "4", ";", "4", "1", ";", "9", "7", "m">>)>>
    /\ parsed_lines[1].text = <<"<ESC>", "[", "0", "m",
                                "<ESC>", "[", "4", ";", "4", "1", ";", "9", "7", "m">>

-----------------------------------------------------------------------------
\* C26: every section marker that is printed has the shape
\*   ESC[0K section_<start|end> : <timestamp> : <id> CR ESC[0K <header>
\* with the time of its printing (pc = "feed" after feed has returned, "exited"
\* after __exit__); "[collapsed=true]" follows the id in the
\* start marker of a section created with start_collapsed and nowhere else,
\* the start marker has the section's header between the colour and the reset
\* code, and the end marker has neither a collapsed flag nor a header.
C26_MarkerShape ==
    \A i \in 1..Len(parsed_lines) :
        (/\ pc \in {"feed", "exited"}
         /\ Len(parsed_lines[i].text) >= 2
         /\ parsed_lines[i].text[2] = "section_") =>
            /\ parsed_lines[i].prefix = ""
            /\ parsed_lines[i].suffix = ""
            /\ \E s \in {GitlabSection("lava_boot", <<"LAVA boot">>, LAVA_BOOT, TRUE)}
                           \cup UNION {SectionsOf(line) : line \in SectionLines} :
                  \/ parsed_lines[i].text =
                        <<"<ESC>[0K", "section_", "start", ":", ToString(now), ":", s.id>>
                            \o (IF s.start_collapsed THEN <<"[collapsed=true]">> ELSE <<>>)
                            \o <<"<CR>", "<ESC>[0K", "<ESC>[1m<ESC>[1;32;5;197m">>
                            \o s.header \o <<"<ESC>[0m">>
                  \/ parsed_lines[i].text =
                        <<"<ESC>[0K", "section_", "end", ":", ToString(now), ":", s.id,
                          "<CR>", "<ESC>[0K">>

\* the collapsed boot section is closed and the collapsed section after a
\* test case is opened, one second into the log
C26_Witness ==
    /\ pc = "feed"
    /\ Len(parsed_lines) = 2
    /\ parsed_lines[1].text =
          <<"<ESC>[0K", "section_", "end", ":", "1", ":", "lava_boot", "<CR>", "<ESC>[0K">>
    /\ parsed_lines[2].text =
          <<"<ESC>[0K", "section_", "start", ":", "1", ":", "post-case", "[collapsed=true]",
            "<CR>", "<ESC>[0K", "<ESC>[1m<ESC>[1;32;5;197m", "Post test_case case",
            "<ESC>[0m">>

-----------------------------------------------------------------------------
\* C27: the section markers that are printed are balanced.  With the section
\* the LogFollower holds open being the one whose start marker was printed
\* last, every batch that fetch_logs prints keeps it so: a batch without
\* markers leaves the open section as it is; otherwise the markers of the batch
\* alternate, they begin with the end marker of the section that was open,
\* every end marker has the id of the start marker before it, and the last one
\* is the start marker of the section that is open afterwards, which __exit__
\* closes.
C27_MarkersBalanced ==
    [][(pc = "get_logs" /\ pc' = "print") =>
        LET IsMarker(l) == Len(l.text) >= 7 /\ l.text[2] = "section_"
            ms == SelectSeq(parsed_lines', IsMarker)
        IN  IF ms = <<>> THEN lf'.current_section = lf.current_section
            ELSE /\ ms[1].text[3] = "end"
                 /\ ms[1].text[7] = lf.current_section.id
                 /\ \A k \in 1..(Len(ms) - 1) :
                       /\ ms[k].text[3] # ms[k + 1].text[3]
                       /\ ms[k].text[3] = "start" => ms[k + 1].text[7] = ms[k].text[7]
                 /\ ms[Len(ms)].text[3] = "start"
                 /\ ms[Len(ms)].text[7] = lf'.current_section.id]_vars

-----------------------------------------------------------------------------
-----------------------------------------------------------------------------
\* C29: the rules of LOG_SECTIONS are tried in their order and the first match
\* wins: a line that matches one rule or more opens the section of the first
\* rule that matches, and at most one section_start marker is emitted for it.
C29_FirstMatchWins ==
    [][(Fed /\ SectionsOf(new_log_lines'[1]) # {}) =>
        LET matching == {i \in DOMAIN LOG_SECTIONS :
                            from_log_line_to_section(LOG_SECTIONS[i], new_log_lines'[1])
                                # NoSection}
            first == CHOOSE i \in matching : \A k \in matching : i <= k
        IN  /\ lf'.current_section.id =
                  from_log_line_to_section(LOG_SECTIONS[first], new_log_lines'[1]).id
            /\ Cardinality(Markers(parsed_lines', "start")) <= 1]_vars

-----------------------------------------------------------------------------
\* C30: feed runs the watchdog before it looks at a line.  If a section is
\* open and the time since its start is more than the budget of its kind (the
\* fallback budget for a kind without an entry), MesaCITimeoutError is raised
\* with exactly that budget, and no line was processed: the open section and
\* the buffer are as they were.  If no section is open or the time is not more
\* than the budget, feed raises nothing and processes the line.
C30_SectionWatchdog ==
    [][(pc = "feed" /\ new_log_lines' # <<>>) =>
        LET open == lf.current_section
            budgets == GL_SECTION_TIMEOUTS(args.job_timeout)
            budget == IF open.type \in DOMAIN budgets
                      THEN budgets[open.type]
                      ELSE FALLBACK_GITLAB_SECTION_TIMEOUT
        IN  IF open # NoSection /\ now' - open.start_time > budget
            THEN /\ pc' = "except"
                 /\ raised'.type = "MesaCITimeoutError"
                 /\ raised'.msg = SectionTimedOut
                 /\ raised'.timeout_duration = budget
                 /\ lf' = lf
                 /\ parsed_lines' = parsed_lines
            ELSE /\ pc' = "feed"
                 /\ raised' = NoException
                 /\ parsed_lines' = feed(open, new_log_lines', now').buffer]_vars

\* a test case that is older than the job timeout by a second
C30_Witness ==
    /\ pc = "except"
    /\ lf.current_section.type = TEST_CASE
    /\ now - lf.current_section.start_time = 60 * args.job_timeout + 1
    /\ raised.type = "MesaCITimeoutError"
    /\ raised.timeout_duration = 60 * args.job_timeout

-----------------------------------------------------------------------------
(* The heartbeat *)

\* C31: last_log_time is set, with the status running, when the polling loop
\* is entered and by every poll that ends with a batch in which some line is
\* not a kernel dump line; a poll with an empty batch or with kernel dump
\* lines only leaves last_log_time and the status as they were, and so does
\* every other step of the attempt.
C31_HeartbeatOnActivity ==
    [][/\ (pc = "wait" /\ pc' = "while") =>
             (job'.last_log_time = now' /\ job'.status = "running")
       /\ (pc = "get_logs" /\ pc' = "print") =>
             IF \E i \in 1..Len(new_log_lines') : ~detect_kernel_dump_line(new_log_lines'[i])
             THEN /\ job'.last_log_time = now
                  /\ job'.status \in {"running", "pass", "fail"}
             ELSE /\ job'.last_log_time = job.last_log_time
                  /\ job'.status = job.status
       /\ (/\ ~(pc = "wait" /\ pc' = "while")
           /\ ~(pc = "get_logs" /\ pc' = "print")
           /\ pc' # "submit") =>
             job'.last_log_time = job.last_log_time]_vars

\* the second poll of an attempt brought kernel dump lines only, 296 s after
\* the first one: the last sign of life is still the first batch
C31_Witness ==
    /\ pc = "print"
    /\ polls = 2
    /\ new_log_lines = <<KernelDumpLine("debug"), Line("target", <<KernelFragment>>)>>
    /\ job.last_log_time = LOG_POLLING_TIME_SEC
    /\ now > job.last_log_time + LOG_POLLING_TIME_SEC
    /\ job.status = "running"

(* The known issue of the network adapter *)

\* the line continues the run of transmit errors: a target line with the
\* signature, seen in the test case phase
Continues(line, ph) ==
    ph = TEST_CASE /\ line.lvl = "target" /\ SearchR8152(line.msg) # 0

\* the phase the lines of the batch are judged in
PhaseAfter(lines) == phase(feed(lf.current_section, lines, now).current_section)

\* the number of lines before the i-th that continue the run without a break,
\* the run that the earlier batches ended with included
RunBefore(lines, i, ph) ==
    LET k == CHOOSE j \in 0..(i - 1) :
                 /\ \A m \in (i - j)..(i - 1) : Continues(lines[m], ph)
                 /\ j < i - 1 => ~Continues(lines[i - j - 1], ph)
    IN IF k = i - 1 THEN lf.r8152_issue_consecutive_counter + k ELSE k

C34_TerminalStatus ==
    [][/\ pc = "except" /\ pc' # "except" =>
            job'.status = IF raised.type = "MesaCIKnownIssueException" THEN "canceled"
                          ELSE IF job.status = "running" THEN "hung"
                          ELSE job.status
       /\ pc \in {"except", "return"} /\ pc' # pc => job'.status # "running"]_vars

\* a second attempt left hung by a timeout, after a first one that the known
\* issue cancelled
C34_Witness ==
    /\ pc = "for"
    /\ attempt_no = 2
    /\ job.status = "hung"
    /\ raised.type = "MesaCITimeoutError"
    /\ "MesaCIKnownIssueException" \in attempt_log

(* A new job for every attempt *)

\* C35: the attempt that the for loop starts has a job as the constructor
\* leaves it (status created, no job_id, last_log_line 0, no last_log_time,
\* not finished) and no section of an earlier attempt; and the follower that
\* the polling loop is entered with has the lava_boot section just started
\* and a counter of zero.
C35_FreshAttempt ==
    [][/\ pc' = "submit" /\ pc # "submit" =>
            /\ job'.status = "created"
            /\ job'.job_id = NoJobId
            /\ job'.last_log_line = 0
            /\ job'.last_log_time = None
            /\ ~job'.is_finished
            /\ lf' = NoFollower
       /\ pc = "wait" /\ pc' = "while" =>
            /\ lf'.r8152_issue_consecutive_counter = 0
            /\ lf'.current_section.type = LAVA_BOOT
            /\ lf'.current_section.start_time = now'
            /\ job'.last_log_line = 0
            /\ ~job'.is_finished]_vars

\* the second attempt starts polling after a first one that read lines
C35_Witness ==
    /\ pc = "while"
    /\ attempt_no = 2
    /\ polls = 0
    /\ job.last_log_line = 0
    /\ job.status = "running"
    /\ "MesaCIKnownIssueException" \in attempt_log

(* The offset of the log *)

\* C36: last_log_line, the offset that the next logs request carries, is zero
\* when an attempt starts, grows by the length of the batch with every
\* request whose payload decodes, and is left as it was by a request that
\* fails and by every other step: it never decreases within an attempt.
C36_OffsetCountsDecodedLines ==
    [][/\ pc = "get_logs" /\ tries' = tries =>
            job'.last_log_line = job.last_log_line + Len(new_log_lines')
       /\ pc = "get_logs" /\ tries' # tries =>
            job'.last_log_line = job.last_log_line
       /\ pc # "get_logs" =>
            job'.last_log_line = IF pc' = "submit" /\ pc # "submit" THEN 0
                                 ELSE job.last_log_line]_vars

\* the second batch, of two lines, decoded at the second try after a first
\* batch of one line
C36_Witness ==
    /\ pc = "print"
    /\ polls = 2
    /\ tries = 1
    /\ Len(new_log_lines) = 2
    /\ job.last_log_line = 3

(* The verdict *)

\* C37: a job whose status is pass or fail keeps that status in every step
\* that follows, the final status print included, and no logs request is made
\* for it any more: the polling loop is not entered again.
C37_VerdictAbsorbing ==
    [][job.status \in {"pass", "fail"} =>
          /\ job'.status = job.status
          /\ polls' = polls
          /\ pc' \notin {"fetch", "get_logs"}]_vars

\* the run has returned with the verdict that the log of the second poll gave
C37_Witness ==
    /\ pc = "done"
    /\ outcome = "returned"
    /\ polls = 2
    /\ job.status = "pass"
    /\ job.is_finished

(* The cancellation *)

\* C38: job.cancel() calls scheduler.jobs.cancel once, with no retry and no
\* sleep, and only for a job with a job_id; an attempt cancels at most once
\* and only in its except clauses; and when the call itself raises, the run
\* ends with an exception and no further attempt is made.
C38_CancelIsDirect ==
    [][/\ cancels' <= 1
       /\ pc = "except" /\ pc' # "except" =>
            /\ cancels' \in {cancels, cancels + 1}
            /\ job.job_id = NoJobId => cancels' = cancels
            /\ cancels' = cancels + 1 =>
                  /\ proxy_call'.fn = "scheduler.jobs.cancel"
                  /\ proxy_call'.calls = 1
                  /\ proxy_call'.n = 0
                  /\ proxy_call'.sleeps = 0
            /\ cancels' = cancels => proxy_call' = NoCall
            /\ proxy_call'.error # "" =>
                  /\ pc' = "done"
                  /\ outcome' \notin {"returned", "None"}
                  /\ exit_code' # 0
       /\ ~(pc = "except" /\ pc' # "except") =>
            cancels' = IF pc' = "submit" /\ pc # "submit" THEN 0 ELSE cancels]_vars

\* the cancel of the first attempt, ended by a timeout, raises: the run ends
C38_Witness ==
    /\ pc = "done"
    /\ attempt_no = 1
    /\ raised.type = "MesaCITimeoutError"
    /\ cancels = 1
    /\ proxy_call.fn = "scheduler.jobs.cancel"
    /\ proxy_call.error = "Exception"
    /\ outcome = "Exception"

(* Lines with a list for a msg *)

\* C39: a line whose msg is a list leaves the current section as it was and
\* puts no section marker into the output, whether feed skips it as a kernel
\* dump (level debug) or hands it to manage_gl_sections (any other level) and
\* whatever its items are; the section is open or closed after it as before.
C39_ListsOpenNoSection ==
    [][(/\ pc = "feed"
        /\ new_log_lines' # <<>>
        /\ new_log_lines'[1].is_list
        /\ raised'.type # "MesaCITimeoutError")
          => /\ lf'.current_section = lf.current_section
             /\ Markers(parsed_lines', "start") = {}
             /\ Markers(parsed_lines', "end") = {}]_vars

\* a target line with the start of a test case among the items of its msg,
\* fed while the boot section is open
C39_Witness ==
    /\ new_log_lines = <<[KernelDumpLine("target") EXCEPT !.msg = <<StartTcFragment>>]>>
    /\ lf.current_section.type = LAVA_BOOT
    /\ lf.current_section.end_time = None
    /\ polls = 2
    /\ parsed_lines = <<>>

====
